---- MODULE Spec2Model ----
(***************************************************************************)
(* Model of the WebSearchPup search-result scraper: the BrowserManager     *)
(* session, SearchResultScraper.run() with its search, extraction and save *)
(* stages, the six region extractors, and the follow-up resolver.          *)
(* External collaborators (the browser engine, the DOM, the filesystem)    *)
(* are nondeterministic: every call into them picks one of its outcomes.   *)
(***************************************************************************)
EXTENDS Integers, Sequences, FiniteSets, TLC

\* ------------------------------------------------------------------ bounds
\* largest number of DOM nodes a region query yields
MaxNodes == 1
\* number of public scraper calls (run / performFollowUpSearch) in a behaviour
MaxCalls == 2
\* number of resolver calls made on one organic entry
MaxResolveCalls == 2

\* ------------------------------------------------------- program constants
\* default-config.ts SEARCH_INPUT_SELECTORS
SEARCH_INPUT_SELECTORS ==
  << "input[name=q]", "#sb_form_q", "input[aria-label]", "textarea#sb_form_q", "input[type=search]" >>

\* (an extraction that would start with the videos)
CategoriesVideosFirst ==
  << "videos", "organicResults", "featuredSnippets", "peopleAlsoAsk", "relatedSearches", "images" >>
\* the six categories of ExtractOptions, in the order extractSearchResults visits them
Categories ==
  << "organicResults", "featuredSnippets", "peopleAlsoAsk", "relatedSearches", "videos", "images" >>

CategorySet == { Categories[i] : i \in 1..Len(Categories) }

\* default-config.ts SELECTORS, the region pattern of each category
SELECTORS ==
  [ organicResults |-> "li.b_algo", featuredSnippets |-> ".b_ans", peopleAlsoAsk |-> ".df_qntext",
    relatedSearches |-> ".b_rs li a", videos |-> ".mc_vtvc", images |-> ".imgpt",
    searchResults |-> "#b_results", mainContent |-> "#b_content" ]

\* default formats of SearchResultScraper.saveResults
SaveFormats == << "json", "text" >>

\* threshold of the pageText / featured-snippet truncation
TruncLimit == 100
\* cap of the follow-up excerpt
ExcerptLimit == 1000

\* ------------------------------------------------------------------ values
NULL == "NULL"
Queries == { "puppeteer tutorial" }
Urls == { NULL, "http://a" }
\* page texts the DOM may hold, by length
PageTextLens == { 0, 101 }
\* body texts a follow-up page may hold, by length
BodyTextLens == { 0, 2 }
Text(n) == [ i \in 1..n |-> "x" ]
Depths == { 0, 1 }
\* numbers of nodes a non-organic region may hold
RegionCounts == { 0, 1 }
ResolveDepths == { -1, 0, 1, 2 }

NoFollowUp == [ t |-> "none" ]
NoRet == [ op |-> "none", kind |-> "none", err |-> "", stage |-> "", val |-> << >> ]

VARIABLES
  browser,        \* BrowserManager.browser: 0 is null, else the handle
  page,           \* BrowserManager.page: 0 is null, else the handle of the owning browser
  openBrowsers,   \* handles of launched browser processes not yet closed
  launcher,       \* launcher[b]: the public operation whose call launched browser b
  config,         \* ScraperConfig.extractOptions
  query,          \* ScraperConfig.searchQuery
  op,             \* public operation in progress: none, run, followUp, resolve
  pc,             \* control point inside the operation
  stage,          \* stage of run(): init, search, extract, save
  selIdx,         \* findSearchInput loop index
  cat,            \* extractSearchResults: index of the category being handled
  fmtIdx,         \* saveResults loop index
  results,        \* the aggregate under construction
  organicResults, \* performFollowUpSearch: the freshly extracted organic list
  resultIndex,    \* performFollowUpSearch argument
  depth,          \* performFollowUpSearch argument
  entry,          \* the organic entry handed to the resolver
  entry0,         \* that entry as it was when the resolver call started
  navs,           \* number of page.goto calls the resolver made
  calls,          \* number of public calls started
  ret,            \* outcome of the latest call
  firstKind,      \* kind of the outcome of the first resolver call
  last,           \* the latest browser / DOM / filesystem operation of the current call and its outcome
  timingData,     \* names of the timing steps recorded by the current run
  files,          \* files written below outputDir by the current call
  doc,            \* the document loaded in the session's page: none, blank, search, other
  held,           \* the organic entries of the aggregate the latest run() returned to its caller
  text,           \* a text a truncation rule is applied to, as it is now
  orig,           \* that text as it was read from the DOM
  applied,        \* the rules applied to it so far
  formats,        \* ResultSaver.saveResults argument: the requested formats
  hasPage,        \* ResultSaver.saveResults argument: whether a page was passed
  attempts,       \* the formats saveInFormat was called for, and the screenshot, in call order
  rendered,       \* the latest output of ResultFormatter.format
  crawl,          \* Crawler.crawlMultiple: the crawl() calls of the batch in flight, the documents
                  \* the pages show, the pages' owners
  variants        \* the two SearchResultScraper classes run side by side on one environment

vars == << browser, page, openBrowsers, launcher, config, query, op, pc, stage, selIdx, cat,
           fmtIdx, results, organicResults, resultIndex, depth, entry, entry0, navs, calls,
           ret, firstKind, last, timingData, files, doc, held, text, orig, applied, formats,
           hasPage, attempts, rendered, crawl, variants >>

sessionVars == << browser, page, openBrowsers, launcher >>
configVars == << config, query >>
runVars == << stage, selIdx, cat, fmtIdx, results, timingData, files >>
followVars == << organicResults, resultIndex >>
resolveVars == << depth, entry, entry0, navs, firstKind >>
\* the state of the text rules, the saver and the formatter when they are exercised on their own
libVars == << text, orig, applied, formats, hasPage, attempts, rendered, crawl, variants >>

Ev(o, a, r) == [ op |-> o, arg |-> a, out |-> r ]
NoEv == Ev("", "", "")

\* new Date(): a logical clock that ticks once per public call
Now == calls

BlankResults == [ query |-> "", timestamp |-> 0 ]
BlankEntry == [ position |-> 0, url |-> NULL, followUpSearched |-> FALSE, followUpResults |-> NoFollowUp ]

\* ---------------------------------------------------------- BrowserManager
InitOutcomes == { "ok", "launchFails", "newPageFails", "setupFails" }

NewHandle == Len(launcher) + 1

\* BrowserManager.isInitialized
isInitialized == browser # 0 /\ page # 0

\* BrowserManager.initialize: puppeteer.launch, browser.newPage, setViewport, setUserAgent;
\* each may reject, leaving the assignments made before it
initialize(o) ==
  /\ browser' = IF o = "launchFails" THEN browser ELSE NewHandle
  /\ page' = IF o \in { "launchFails", "newPageFails" } THEN page ELSE NewHandle
  /\ openBrowsers' = IF o = "launchFails" THEN openBrowsers ELSE openBrowsers \cup { NewHandle }
  /\ launcher' = IF o = "launchFails" THEN launcher ELSE Append(launcher, op)
  /\ doc' = IF o \in { "launchFails", "newPageFails" } THEN doc ELSE "blank"

InitError(o) ==
  CASE o = "launchFails" -> "launch failed"
    [] o = "newPageFails" -> "newPage failed"
    [] OTHER -> "page setup failed"

\* the browser processes left open by BrowserManager.close
closeNothing(b, open) == open
closedBrowsers(b, open) == IF b # 0 THEN open \ { b } ELSE open

\* BrowserManager.close
close ==
  /\ openBrowsers' = closedBrowsers(browser, openBrowsers)
  /\ browser' = IF browser # 0 THEN 0 ELSE browser
  /\ page' = IF browser # 0 THEN 0 ELSE page
  /\ doc' = IF browser # 0 THEN "none" ELSE doc
  /\ UNCHANGED launcher

\* ------------------------------------------------------------- construction
\* default-config.ts DEFAULT_CONFIG.extractOptions
DEFAULT_CONFIG == [ c \in CategorySet |-> c # "images" ]

\* the extractOptions a scraper is constructed with: the default (all but images),
\* everything, nothing, and each category alone
Configs ==
  { DEFAULT_CONFIG, [ c \in CategorySet |-> TRUE ], [ c \in CategorySet |-> FALSE ] }
    \cup { [ c \in CategorySet |-> c = d ] : d \in CategorySet }

NoRender == [ format |-> "none", kind |-> "none", out |-> << >>, err |-> [ message |-> "", format |-> "" ] ]

\* no crawlMultiple batch is in flight; the two scraper classes are not being compared
NoCrawl == [ units |-> << >>, docs |-> << >> ]
NoVariants == [ env |-> "none", n |-> << >> ]

\* nothing has been handed to the text rules, the saver or the formatter
LibIdle ==
  /\ text = << >> /\ orig = << >> /\ applied = << >>
  /\ formats = << >> /\ hasPage = FALSE /\ attempts = << >>
  /\ rendered = NoRender
  /\ crawl = NoCrawl /\ variants = NoVariants

ScraperInit ==
  /\ browser = 0 /\ page = 0 /\ openBrowsers = {} /\ launcher = << >>
  /\ doc = "none" /\ held = << >> /\ LibIdle
  /\ config \in Configs
  /\ query \in Queries
  /\ op = "none" /\ pc = "idle" /\ stage = ""
  /\ selIdx = 0 /\ cat = 0 /\ fmtIdx = 0
  /\ results = BlankResults
  /\ organicResults = << >> /\ resultIndex = 0 /\ depth = 0
  /\ entry = BlankEntry
  /\ entry0 = entry
  /\ navs = 0 /\ calls = 0
  /\ ret = NoRet /\ firstKind = "none"
  /\ last = NoEv /\ timingData = {} /\ files = {}

\* ---------------------------------------------------------------- run()
\* an exception leaving the operation in progress
Throw(e) == [ op |-> op, kind |-> "throw", err |-> e, stage |-> stage, val |-> << >> ]
\* a value returned by the operation in progress
Value(v) == [ op |-> op, kind |-> "value", err |-> "", stage |-> stage, val |-> v ]
\* a null returned by the operation in progress
ReturnNull == [ op |-> op, kind |-> "null", err |-> "", stage |-> stage, val |-> << >> ]

\* the locals of a finished call are dead when the next call starts
FreshLocals ==
  /\ selIdx' = 0 /\ cat' = 0 /\ fmtIdx' = 0
  /\ results' = BlankResults /\ timingData' = {} /\ files' = {}
  /\ organicResults' = << >>
  /\ entry' = BlankEntry /\ entry0' = BlankEntry /\ navs' = 0
  /\ ret' = NoRet /\ last' = NoEv

\* a caller invokes run()
RunStart ==
  /\ op = "none" /\ calls < MaxCalls
  /\ op' = "run" /\ pc' = "initialize" /\ stage' = "init"
  /\ calls' = calls + 1
  /\ FreshLocals
  /\ resultIndex' = 0 /\ depth' = 0
  /\ UNCHANGED << sessionVars, configVars, firstKind >>
  /\ held' = << >>
  /\ UNCHANGED << doc, libVars >>

\* run: await this.browserManager.initialize()
RunInitialize ==
  /\ op = "run" /\ pc = "initialize"
  /\ \E o \in InitOutcomes :
       /\ initialize(o)
       /\ last' = Ev("initialize", "", o)
       /\ IF o = "ok"
            THEN /\ pc' = "goto" /\ stage' = "search"
                 /\ timingData' = timingData \cup { "browserInitialization" }
                 /\ ret' = ret
            ELSE /\ pc' = "finally" /\ ret' = Throw(InitError(o))
                 /\ UNCHANGED << stage, timingData >>
  /\ UNCHANGED << configVars, op, selIdx, cat, fmtIdx, results, files, followVars, resolveVars, calls >>
  /\ UNCHANGED << held, libVars >>

\* performSearch: page.goto(SEARCH_ENGINE_URL) and the settle delay; a rejection is not caught
GotoOutcomes == { "ok", "timeout", "error" }

PerformSearchGoto ==
  /\ op = "run" /\ pc = "goto"
  /\ \E o \in GotoOutcomes :
       IF o = "ok"
         THEN /\ last' = Ev("goto", "search", o)
              /\ pc' = "findSearchInput" /\ selIdx' = 1
              /\ ret' = ret /\ doc' = "search"
         ELSE /\ last' = Ev("goto", "search", o)
              /\ pc' = "finally"
              /\ ret' = Throw(IF o = "timeout" THEN "TimeoutError" ELSE "navigation failed")
              /\ UNCHANGED << selIdx, doc >>
  /\ UNCHANGED << sessionVars, configVars, op, stage, cat, fmtIdx, results, timingData, files,
                  followVars, resolveVars, calls >>
  /\ UNCHANGED << held, libVars >>

\* findSearchInput: one iteration of the loop over SEARCH_INPUT_SELECTORS;
\* page.$ yields a control, yields null, or rejects (caught, treated as null)
QueryOutcomes == { "element", "null", "throws" }

\* if (element): page.$(selector).catch(() => null) makes a rejected lookup null, hence no control
\* (the variant without the catch would take a rejection for a result)
FoundControlOrThrows(o) == o # "null"
FoundControl(o) == o = "element"

FindSearchInput ==
  /\ op = "run" /\ pc = "findSearchInput" /\ selIdx \in 1..Len(SEARCH_INPUT_SELECTORS)
  /\ \E o \in QueryOutcomes :
       /\ last' = Ev("$", SEARCH_INPUT_SELECTORS[selIdx], o)
       /\ IF FoundControl(o)
            THEN pc' = "type" /\ UNCHANGED << selIdx, ret >>
            ELSE IF selIdx < Len(SEARCH_INPUT_SELECTORS)
                   THEN selIdx' = selIdx + 1 /\ UNCHANGED << pc, ret >>
                   ELSE /\ pc' = "finally" /\ ret' = Throw("Could not find search input")
                        /\ UNCHANGED selIdx
  /\ UNCHANGED << sessionVars, configVars, op, stage, cat, fmtIdx, results, timingData, files,
                  followVars, resolveVars, calls >>
  /\ UNCHANGED << doc, held, libVars >>

\* performSearch: searchInput.type(query); a rejection is not caught
CallOutcomes == { "ok", "throws" }

PerformSearchType ==
  /\ op = "run" /\ pc = "type"
  /\ \E o \in CallOutcomes :
       /\ last' = Ev("type", query, o)
       /\ IF o = "ok"
            THEN pc' = "press" /\ ret' = ret
            ELSE pc' = "finally" /\ ret' = Throw("type failed")
  /\ UNCHANGED << sessionVars, configVars, op, stage, selIdx, cat, fmtIdx, results, timingData,
                  files, followVars, resolveVars, calls >>
  /\ UNCHANGED << doc, held, libVars >>

\* performSearch: page.keyboard.press('Enter'); a rejection is not caught
PerformSearchPress ==
  /\ op = "run" /\ pc = "press"
  /\ \E o \in CallOutcomes :
       /\ last' = Ev("press", "Enter", o)
       /\ IF o = "ok"
            THEN pc' = "waitResults" /\ ret' = ret
            ELSE pc' = "finally" /\ ret' = Throw("press failed")
  /\ UNCHANGED << sessionVars, configVars, op, stage, selIdx, cat, fmtIdx, results, timingData,
                  files, followVars, resolveVars, calls >>
  /\ UNCHANGED << doc, held, libVars >>

\* performSearch: waitForSelector(SELECTORS.searchResults).catch(...), then the settle delay;
\* back in run the extraction stage starts with the construction of the aggregate
WaitOutcomes == { "found", "timeout" }
\* the page BrowserManager.initialize opens holds an empty document until a navigation:
\* no region pattern matches in it
RegionWaitOutcomes == IF doc = "blank" THEN { "timeout" } ELSE WaitOutcomes

PerformSearchWaitResults ==
  /\ op = "run" /\ pc = "waitResults"
  /\ \E o \in WaitOutcomes :
       last' = Ev("waitForSelector", SELECTORS.searchResults, o)
  /\ pc' = "category" /\ cat' = 1 /\ stage' = "extract"
  /\ timingData' = timingData \cup { "searchExecution" }
  /\ results' = [ query |-> query, timestamp |-> Now ]
  /\ UNCHANGED << sessionVars, configVars, op, selIdx, fmtIdx, files, followVars, resolveVars,
                  calls, ret >>
  /\ UNCHANGED << doc, held, libVars >>

\* ------------------------------------------------------- region extractors
Null == [ t |-> "null" ]
Val(v) == [ t |-> "val", v |-> v ]

\* the records one in-page evaluation can yield for a category, in DOM encounter order:
\* organic entries carry position, url and the follow-up fields; the other categories one record per node
OrganicEntry(i, u) ==
  [ position |-> i, url |-> u, followUpSearched |-> FALSE, followUpResults |-> NoFollowUp ]

NodeLists(c) ==
  IF c = "organicResults"
    THEN UNION { { [ i \in 1..n |-> OrganicEntry(i, us[i]) ] : us \in [ 1..n -> Urls ] } : n \in 0..MaxNodes }
    ELSE { [ i \in 1..n |-> [ node |-> i ] ] : n \in RegionCounts }

\* the category the running extractor works on
CurCat == IF op = "run" THEN Categories[cat] ELSE "organicResults"

\* extractSearchResults: if (this.config.extractOptions.<category>)
EnabledAlways(c) == TRUE
Enabled(c) == config[c]

\* BaseExtractor.waitForSelectorSafe: true when the region appears, false on timeout
waitForSelectorSafe(o) == o = "found"

\* extract(): after the region wait the extractor evaluates in the page or is done at once
AfterWaitAlwaysEvaluate(o) == "evaluate"
AfterWait(o) == IF waitForSelectorSafe(o) THEN "evaluate" ELSE "done"

\* BaseExtractor.safeEvaluate: the evaluation's value, or null when page.evaluate rejects
safeEvaluate(o, v) == IF o = "throws" THEN Null ELSE Val(v)

\* extract(): safeEvaluate(...) || []
OrEmpty(r) == IF r.t = "null" THEN << >> ELSE r.v

\* extract() returns list: run stores it in the aggregate and moves to the next category,
\* performFollowUpSearch keeps it as its local organicResults
Deliver(list) ==
  IF op = "run"
    THEN /\ results' = results @@ (Categories[cat] :> list)
         /\ timingData' = timingData \cup { Categories[cat] }
         /\ IF cat < Len(Categories)
              THEN cat' = cat + 1 /\ pc' = "category"
              ELSE cat' = cat /\ pc' = "pageText"
         /\ UNCHANGED organicResults
    ELSE /\ organicResults' = list
         /\ pc' = "index"
         /\ UNCHANGED << results, timingData, cat >>

\* extractSearchResults: the check of one category's option
ExtractCategory ==
  /\ op = "run" /\ pc = "category"
  /\ IF Enabled(Categories[cat])
       THEN pc' = "wait" /\ cat' = cat
       ELSE IF cat < Len(Categories)
              THEN cat' = cat + 1 /\ pc' = "category"
              ELSE cat' = cat /\ pc' = "pageText"
  /\ UNCHANGED << sessionVars, configVars, op, stage, selIdx, fmtIdx, results, timingData, files,
                  followVars, resolveVars, calls, ret, last >>
  /\ UNCHANGED << doc, held, libVars >>

\* extract(): waitForSelectorSafe(SELECTORS.<category>, timeout) and the early return
ExtractWait ==
  /\ op \in { "run", "followUp" } /\ pc = "wait"
  /\ \E o \in RegionWaitOutcomes :
       /\ last' = Ev("waitForSelector", SELECTORS[CurCat], o)
       /\ IF AfterWait(o) = "evaluate"
            THEN pc' = "evaluate" /\ UNCHANGED << results, timingData, cat, organicResults >>
            ELSE Deliver(<< >>)
  /\ UNCHANGED << sessionVars, configVars, op, stage, selIdx, fmtIdx, files, resultIndex,
                  resolveVars, calls, ret >>
  /\ UNCHANGED << doc, held, libVars >>

\* extract(): safeEvaluate(<node mapping>, selector) || []
EvalOutcomes == { "value", "throws" }

ExtractEvaluate ==
  /\ op \in { "run", "followUp" } /\ pc = "evaluate"
  /\ \E o \in EvalOutcomes :
       \E v \in IF o = "throws" THEN { << >> } ELSE NodeLists(CurCat) :
         /\ last' = Ev("evaluate", SELECTORS[CurCat], o)
         /\ Deliver(OrEmpty(safeEvaluate(o, v)))
  /\ UNCHANGED << sessionVars, configVars, op, stage, selIdx, fmtIdx, files, resultIndex,
                  resolveVars, calls, ret >>
  /\ UNCHANGED << doc, held, libVars >>

\* the 100-character truncation rule of pageText
Ellipsis == "ELLIPSIS"
TruncateNoSlice(s) == IF Len(s) > TruncLimit THEN Append(s, Ellipsis) ELSE s
TruncateLongMarker(s) ==
  IF Len(s) > TruncLimit THEN SubSeq(s, 1, TruncLimit) \o << ".", ".", "." >> ELSE s
Truncate(s) == IF Len(s) > TruncLimit THEN Append(SubSeq(s, 1, TruncLimit), Ellipsis) ELSE s

\* extractSearchResults: extractAllPageText (a bare page.evaluate) and the truncation;
\* back in run the save stage starts
ExtractPageText ==
  /\ op = "run" /\ pc = "pageText"
  /\ \E o \in EvalOutcomes :
       IF o = "throws"
         THEN /\ last' = Ev("evaluate", SELECTORS.mainContent, o)
              /\ pc' = "finally" /\ ret' = Throw("evaluate failed")
              /\ UNCHANGED << results, timingData, stage, fmtIdx >>
         ELSE \E n \in PageTextLens :
              /\ last' = Ev("evaluate", SELECTORS.mainContent, o)
              /\ results' = results @@ ("pageText" :> Truncate(Text(n)))
              /\ timingData' = timingData \cup { "pageText", "totalExtraction" }
              /\ pc' = "ensureDir" /\ stage' = "save" /\ fmtIdx' = 1
              /\ ret' = ret
  /\ UNCHANGED << sessionVars, configVars, op, selIdx, cat, files, followVars, resolveVars, calls >>
  /\ UNCHANGED << doc, held, libVars >>

\* ------------------------------------------------------------- save stage
\* ResultSaver.getFileExtension
getFileExtension(format) ==
  CASE format = "json" -> "search-results.json"
    [] format = "text" -> "search-results.txt"
    [] format = "csv" -> "search-results.csv"
    [] format = "html" -> "search-results.html"
    [] OTHER -> "search-results.txt"

\* ResultSaver.saveResults -> ensureDirectoryExists: the directory exists already, or mkdirSync
\* creates it, or mkdirSync throws (outside any try block)
SaveEnsureDir ==
  /\ op = "run" /\ pc = "ensureDir"
  /\ \E o \in { "exists", "created", "throws" } :
       /\ last' = Ev("ensureDirectoryExists", SaveFormats[fmtIdx], o)
       /\ IF o = "throws"
            THEN pc' = "finally" /\ ret' = Throw("mkdir failed") /\ files' = files
            ELSE pc' = "saveInFormat" /\ ret' = ret /\ files' = files
  /\ UNCHANGED << sessionVars, configVars, op, stage, selIdx, cat, fmtIdx, results, timingData,
                  followVars, resolveVars, calls >>
  /\ UNCHANGED << doc, held, libVars >>

\* ResultFormatter.format: the switch over the four supported formats
SupportedAny(f) == TRUE
Supported(f) == f \in { "json", "text", "csv", "html" }

\* ResultFormatter.format, default branch: Error(`Unsupported output format: ${format}`)
UnsupportedFormat(f) == [ message |-> "Unsupported output format", format |-> f ]

\* ResultSaver.saveInFormat, the try block: format() throws for an unsupported format
\* before anything is written; otherwise writeFileSync succeeds or throws
SaveOutcomes(f) == IF Supported(f) THEN CallOutcomes ELSE { "unsupported" }

\* the error of a failed attempt
SaveError(f, o) ==
  CASE o = "unsupported" -> UnsupportedFormat(f)
    [] o = "throws" -> [ message |-> "write failed", format |-> f ]
    [] OTHER -> [ message |-> "", format |-> f ]

\* the browser / filesystem operation an attempt ended with
SaveEvent(f, o) ==
  IF o = "unsupported" THEN Ev("format", f, o) ELSE Ev("writeFileSync", getFileExtension(f), o)

\* ResultSaver.saveInFormat, the catch block: the error is logged and swallowed
CatchRethrows(o) == IF o = "ok" THEN "continue" ELSE "rethrow"
Catch(o) == "continue"

\* ResultSaver.saveInFormat: format, then writeFileSync, errors caught and logged
SaveInFormat ==
  /\ op = "run" /\ pc = "saveInFormat"
  /\ \E o \in SaveOutcomes(SaveFormats[fmtIdx]) :
       /\ last' = SaveEvent(SaveFormats[fmtIdx], o)
       /\ files' = IF o = "ok" THEN files \cup { getFileExtension(SaveFormats[fmtIdx]) } ELSE files
       /\ IF Catch(o) = "continue"
            THEN pc' = "screenshot" /\ ret' = ret
            ELSE pc' = "finally" /\ ret' = Throw(SaveError(SaveFormats[fmtIdx], o).message)
  /\ UNCHANGED << sessionVars, configVars, op, stage, selIdx, cat, fmtIdx, results, timingData,
                  followVars, resolveVars, calls >>
  /\ UNCHANGED << doc, held, libVars >>

\* ResultSaver.takeScreenshot (errors caught), then the next format of the loop in
\* SearchResultScraper.saveResults, or the return statement of run
SaveScreenshot ==
  /\ op = "run" /\ pc = "screenshot"
  /\ \E o \in CallOutcomes :
       /\ last' = Ev("screenshot", "search-results.png", o)
       /\ files' = IF o = "ok" THEN files \cup { "search-results.png" } ELSE files
  /\ IF fmtIdx < Len(SaveFormats)
       THEN /\ fmtIdx' = fmtIdx + 1 /\ pc' = "ensureDir"
            /\ UNCHANGED << ret, timingData >>
       ELSE /\ fmtIdx' = fmtIdx /\ pc' = "finally"
            /\ timingData' = timingData \cup { "saveResults" }
            /\ ret' = Value(results)
  /\ UNCHANGED << sessionVars, configVars, op, stage, selIdx, cat, results, followVars,
                  resolveVars, calls >>
  /\ UNCHANGED << doc, held, libVars >>

\* run: the finally block closes the browser; then run returns or rethrows
RunFinally ==
  /\ op = "run" /\ pc = "finally"
  /\ close
  /\ last' = Ev("close", "", "ok")
  /\ timingData' = timingData \cup { "browserCleanup" }
  /\ op' = "none" /\ pc' = "idle"
  /\ UNCHANGED << configVars, stage, selIdx, cat, fmtIdx, results, files, followVars,
                  resolveVars, calls, ret >>
  /\ held' = IF ret.kind = "value" /\ "organicResults" \in DOMAIN ret.val
               THEN ret.val.organicResults ELSE << >>
  /\ UNCHANGED libVars

\* ------------------------------------- SearchResultScraper.performFollowUpSearch
Indexes == -1..MaxNodes
Undefined == [ t |-> "undefined" ]

\* a caller invokes performFollowUpSearch(idx, d); the browser is launched only when
\* the session is not initialized
FollowUpStart(idx, d) ==
  /\ op = "none" /\ calls < MaxCalls
  /\ op' = "followUp" /\ calls' = calls + 1
  /\ resultIndex' = idx /\ depth' = d
  /\ pc' = IF isInitialized THEN "wait" ELSE "initialize"
  /\ FreshLocals /\ stage' = ""
  /\ UNCHANGED << sessionVars, configVars, firstKind >>
  /\ UNCHANGED << doc, held, libVars >>

\* performFollowUpSearch: await this.browserManager.initialize(), outside any try block
FollowUpInitialize ==
  /\ op = "followUp" /\ pc = "initialize"
  /\ \E o \in InitOutcomes :
       /\ initialize(o)
       /\ last' = Ev("initialize", "", o)
       /\ IF o = "ok"
            THEN pc' = "wait" /\ UNCHANGED << op, ret >>
            ELSE pc' = "idle" /\ op' = "none" /\ ret' = Throw(InitError(o))
  /\ UNCHANGED << configVars, runVars, followVars, resolveVars, calls >>
  /\ UNCHANGED << held, libVars >>

\* performFollowUpSearch: the range check and the hand-over of organicResults[resultIndex]
\* (undefined for a negative index) to the resolver
OutOfRange(idx, list) == idx >= Len(list)

FollowUpIndex ==
  /\ op = "followUp" /\ pc = "index"
  /\ IF OutOfRange(resultIndex, organicResults)
       THEN /\ op' = "none" /\ pc' = "idle" /\ ret' = ReturnNull
            /\ UNCHANGED << entry, entry0 >>
       ELSE /\ entry' = IF resultIndex >= 0 THEN organicResults[resultIndex + 1] ELSE Undefined
            /\ entry0' = entry'
            /\ pc' = "resolveGuard"
            /\ UNCHANGED << op, ret >>
  /\ UNCHANGED << sessionVars, configVars, runVars, followVars, depth, navs, firstKind, calls, last >>
  /\ UNCHANGED << doc, held, libVars >>

\* -------------------------------- OrganicResultsExtractor.performFollowUpSearch
\* JavaScript falsiness of a nullable string
Falsy(u) == u = NULL \/ u = ""

\* if (!result.url || result.followUpSearched || depth <= 0) return null
FollowUpGuardNoDepth(e, d) == Falsy(e.url) \/ e.followUpSearched
FollowUpGuardNoFlag(e, d) == Falsy(e.url) \/ d <= 0
FollowUpGuard(e, d) == Falsy(e.url) \/ e.followUpSearched \/ d <= 0

\* the resolver call ends with outcome r
Finish(r) ==
  /\ ret' = r /\ op' = "none" /\ pc' = "idle"
  /\ firstKind' = IF op = "resolve" /\ firstKind = "none" THEN r.kind ELSE firstKind

\* a caller holding an extractor and one organic entry invokes performFollowUpSearch(entry, d)
ResolveStart(d) ==
  /\ op = "none" /\ calls < MaxResolveCalls
  /\ op' = "resolve" /\ calls' = calls + 1
  /\ depth' = d /\ entry0' = entry
  /\ pc' = "resolveGuard"
  /\ ret' = NoRet /\ last' = NoEv
  /\ UNCHANGED << sessionVars, configVars, runVars, followVars, entry, navs, firstKind >>
  /\ UNCHANGED << doc, held, libVars >>

\* the guard; reading .url of an undefined entry raises a TypeError that rejects the call
ResolverGuard ==
  /\ op \in { "followUp", "resolve" } /\ pc = "resolveGuard"
  /\ IF "url" \notin DOMAIN entry
       THEN Finish(Throw("TypeError"))
       ELSE IF FollowUpGuard(entry, depth)
              THEN Finish(ReturnNull)
              ELSE pc' = "resolveGoto" /\ UNCHANGED << op, ret, firstKind >>
  /\ UNCHANGED << sessionVars, configVars, runVars, followVars, depth, entry, entry0, navs,
                  calls, last >>
  /\ UNCHANGED << doc, held, libVars >>

\* try { await this.page.goto(result.url, ...) } catch { return null }
ResolverGoto ==
  /\ op \in { "followUp", "resolve" } /\ pc = "resolveGoto"
  /\ navs' = navs + 1
  /\ \E o \in GotoOutcomes :
       /\ last' = Ev("goto", entry.url, o)
       /\ doc' = IF o = "error" THEN doc ELSE "other"
       /\ IF o = "ok"
            THEN pc' = "resolveTitle" /\ UNCHANGED << op, ret, firstKind >>
            ELSE Finish(ReturnNull)
  /\ UNCHANGED << sessionVars, configVars, runVars, followVars, depth, entry, entry0, calls >>
  /\ UNCHANGED << held, libVars >>

\* try { const title = await this.page.title() } catch { return null }
ResolverTitle ==
  /\ op \in { "followUp", "resolve" } /\ pc = "resolveTitle"
  /\ \E o \in CallOutcomes :
       /\ last' = Ev("title", "", o)
       /\ IF o = "ok"
            THEN pc' = "resolveEvaluate" /\ UNCHANGED << op, ret, firstKind >>
            ELSE Finish(ReturnNull)
  /\ UNCHANGED << sessionVars, configVars, runVars, followVars, depth, entry, entry0, navs, calls >>
  /\ UNCHANGED << doc, held, libVars >>

\* content ? content.substring(0, 1000) + '...' : null
Min(a, b) == IF a < b THEN a ELSE b
Excerpt(r) ==
  IF r.t = "null" \/ Len(r.v) = 0
    THEN Null
    ELSE Val(SubSeq(r.v, 1, Min(Len(r.v), ExcerptLimit)) \o << ".", ".", "." >>)

\* the follow-up record stored on the entry
FollowUpResult(content, url) ==
  [ t |-> "result", title |-> "Title", content |-> Excerpt(content), url |-> url ]

\* the body text through safeEvaluate (which swallows a rejection), then the flag and
\* the follow-up record are stored on the entry and the record is returned
ResolverEvaluate ==
  /\ op \in { "followUp", "resolve" } /\ pc = "resolveEvaluate"
  /\ \E o \in EvalOutcomes :
       \E n \in IF o = "throws" THEN { 0 } ELSE BodyTextLens :
         /\ last' = Ev("evaluate", "main", o)
         /\ entry' = [ entry EXCEPT !.followUpSearched = TRUE,
                                    !.followUpResults = FollowUpResult(safeEvaluate(o, Text(n)), entry.url) ]
         /\ Finish(Value(entry'.followUpResults))
  /\ UNCHANGED << sessionVars, configVars, runVars, followVars, depth, entry0, navs, calls >>
  /\ UNCHANGED << doc, held, libVars >>

\* ------------------------------------------------------------ specifications
\* the scraper object and its two public operations, called one after another; a follow-up
\* never gets past the resolver's guard here, because the only page it can read is the empty
\* one its own initialize opened (run() closes the session it navigated)
Init == ScraperInit

Next ==
  \/ RunStart
  \/ RunInitialize
  \/ PerformSearchGoto
  \/ FindSearchInput
  \/ PerformSearchType
  \/ PerformSearchPress
  \/ PerformSearchWaitResults
  \/ ExtractCategory
  \/ ExtractWait
  \/ ExtractEvaluate
  \/ ExtractPageText
  \/ SaveEnsureDir
  \/ SaveInFormat
  \/ SaveScreenshot
  \/ RunFinally
  \/ \E idx \in Indexes : \E d \in Depths : FollowUpStart(idx, d)
  \/ FollowUpInitialize
  \/ FollowUpIndex
  \/ ResolverGuard

Spec == Init /\ [][Next]_vars

\* the resolver called repeatedly on one organic entry, through an extractor bound to an open page
ResolverEntries ==
  { [ position |-> 1, url |-> u, followUpSearched |-> FALSE, followUpResults |-> NoFollowUp ] :
      u \in { NULL, "", "http://a" } }

ResolverInit ==
  /\ browser = 1 /\ page = 1 /\ openBrowsers = { 1 } /\ launcher = << "caller" >>
  /\ doc = "search" /\ held = << >> /\ LibIdle
  /\ config = [ c \in CategorySet |-> TRUE ]
  /\ query = "puppeteer tutorial"
  /\ op = "none" /\ pc = "idle" /\ stage = ""
  /\ selIdx = 0 /\ cat = 0 /\ fmtIdx = 0
  /\ results = BlankResults
  /\ organicResults = << >> /\ resultIndex = 0 /\ depth = 0
  /\ entry \in ResolverEntries
  /\ entry0 = entry
  /\ navs = 0 /\ calls = 0
  /\ ret = NoRet /\ firstKind = "none"
  /\ last = NoEv /\ timingData = {} /\ files = {}

ResolverNext ==
  \/ \E d \in ResolveDepths : ResolveStart(d)
  \/ ResolverGuard
  \/ ResolverGoto
  \/ ResolverTitle
  \/ ResolverEvaluate

SpecResolver == ResolverInit /\ [][ResolverNext]_vars

\* ------------------------------------------------------- the text rules alone
\* number of rule applications made on one text
MaxApply == 2

\* texts a DOM node may hold, by length, around the two limits
TextLens == { 0, 1, 99, 100, 101, 102, 150, 999, 1000, 1001 }
Glyph(i, k) == << "a", "b", "c" >>[((i + k) % 3) + 1]
Sample(n, k) == [ i \in 1..n |-> Glyph(i, k) ]
\* the sample texts, and one that already is 100 characters followed by the ellipsis
TextInputs ==
  { Sample(n, k) : n \in TextLens, k \in { 0, 1 } } \cup { Append(Sample(TruncLimit, 0), Ellipsis) }

\* element.textContent?.trim() || null
OrNull(r) == IF r.t = "val" /\ Len(r.v) = 0 THEN Null ELSE r

\* FeaturedSnippetsExtractor: if (textContent && textContent.length > 100)
\*   textContent = textContent.slice(0, 100) + '…'
TruncateSnippetAtLimit(c) ==
  IF c.t = "val" /\ Len(c.v) >= TruncLimit
    THEN Val(Append(SubSeq(c.v, 1, TruncLimit), Ellipsis))
    ELSE c
TruncateSnippet(c) ==
  IF c.t = "val" /\ Len(c.v) > TruncLimit
    THEN Val(Append(SubSeq(c.v, 1, TruncLimit), Ellipsis))
    ELSE c

\* a caller that holds an open page and uses one component on its own
Standalone ==
  /\ browser = 1 /\ page = 1 /\ openBrowsers = { 1 } /\ launcher = << "caller" >>
  /\ doc = "search" /\ held = << >>
  /\ config = [ c \in CategorySet |-> TRUE ]
  /\ query = "puppeteer tutorial"
  /\ op = "none" /\ pc = "idle" /\ stage = ""
  /\ selIdx = 0 /\ cat = 0 /\ fmtIdx = 0
  /\ organicResults = << >> /\ resultIndex = 0 /\ depth = 0
  /\ entry = BlankEntry /\ entry0 = entry
  /\ navs = 0 /\ calls = 0
  /\ ret = NoRet /\ firstKind = "none"
  /\ last = NoEv /\ timingData = {} /\ files = {}

TextInit ==
  /\ Standalone
  /\ results = BlankResults
  /\ formats = << >> /\ hasPage = FALSE /\ attempts = << >> /\ rendered = NoRender
  /\ crawl = NoCrawl /\ variants = NoVariants
  /\ \E s \in TextInputs : orig = Val(s)
  /\ text = orig /\ applied = << >>

nonTextVars ==
  << browser, page, openBrowsers, launcher, config, query, op, pc, stage, selIdx, cat,
     fmtIdx, results, organicResults, resultIndex, depth, entry, entry0, navs, calls,
     ret, firstKind, last, timingData, files, doc, held, formats, hasPage, attempts, rendered,
     crawl, variants >>

\* the featured-snippet rule on a node's trimmed text
ApplySnippetRule ==
  /\ Len(applied) < MaxApply
  /\ text' = TruncateSnippet(OrNull(text))
  /\ applied' = Append(applied, "snippet")
  /\ UNCHANGED << orig, nonTextVars >>

\* the pageText rule on the string extractAllPageText returned
ApplyPageTextRule ==
  /\ Len(applied) < MaxApply /\ text.t = "val"
  /\ text' = Val(Truncate(text.v))
  /\ applied' = Append(applied, "pageText")
  /\ UNCHANGED << orig, nonTextVars >>

\* the follow-up excerpt of a page's body text
ApplyExcerpt ==
  /\ Len(applied) < MaxApply
  /\ text' = Excerpt(text)
  /\ applied' = Append(applied, "excerpt")
  /\ UNCHANGED << orig, nonTextVars >>

TextNext ==
  \/ ApplySnippetRule
  \/ ApplyPageTextRule
  \/ ApplyExcerpt

SpecText == TextInit /\ [][TextNext]_vars

\* ------------------------------------------------------ ResultSaver alone
\* longest list of formats handed to ResultSaver.saveResults
MaxFormats == 2
\* number of ResultSaver.saveResults calls in a behaviour
MaxSaveCalls == 1

\* the four members of OutputFormat and a value outside it
RequestedFormats == { "json", "text", "csv", "html", "xml" }
FormatLists == UNION { [ 1..n -> RequestedFormats ] : n \in 0..MaxFormats }

SaverInit ==
  /\ Standalone
  /\ results = [ query |-> "puppeteer tutorial", timestamp |-> 1 ] @@ ("pageText" :> << >>)
  /\ text = << >> /\ orig = << >> /\ applied = << >>
  /\ formats = << >> /\ hasPage = FALSE /\ attempts = << >> /\ rendered = NoRender
  /\ crawl = NoCrawl /\ variants = NoVariants

saverFrame ==
  << sessionVars, configVars, stage, selIdx, cat, results, timingData, followVars, resolveVars,
     doc, held, text, orig, applied, rendered, crawl, variants >>

Attempt(f, o) ==
  [ format |-> f, out |-> o, err |-> SaveError(f, o),
    file |-> IF o = "ok" THEN getFileExtension(f) ELSE NULL ]

\* a caller invokes resultSaver.saveResults(results, outputDir, fs, page?)
SaverStart(fs, p) ==
  /\ op = "none" /\ calls < MaxSaveCalls
  /\ op' = "saveResults" /\ pc' = "ensureDir" /\ calls' = calls + 1
  /\ formats' = fs /\ hasPage' = p /\ fmtIdx' = 1
  /\ attempts' = << >> /\ files' = {}
  /\ ret' = NoRet /\ last' = NoEv
  /\ UNCHANGED saverFrame

\* where saveResults goes once format number i - 1 is done
AfterFormat(i) ==
  IF i <= Len(formats) THEN "saveInFormat" ELSE IF hasPage THEN "screenshot" ELSE "return"

\* saveResults: ensureDirectoryExists(outputDir), outside any try block
SaverEnsureDir ==
  /\ op = "saveResults" /\ pc = "ensureDir"
  /\ \E o \in { "exists", "created", "throws" } :
       /\ last' = Ev("ensureDirectoryExists", "", o)
       /\ IF o = "throws"
            THEN op' = "none" /\ pc' = "idle" /\ ret' = Throw("mkdir failed")
            ELSE pc' = AfterFormat(1) /\ UNCHANGED << op, ret >>
  /\ UNCHANGED << saverFrame, fmtIdx, files, calls, formats, hasPage, attempts >>

\* saveResults: one iteration of for (const format of formats) await this.saveInFormat(...)
SaverSaveInFormat ==
  /\ op = "saveResults" /\ pc = "saveInFormat"
  /\ \E o \in SaveOutcomes(formats[fmtIdx]) :
       /\ last' = SaveEvent(formats[fmtIdx], o)
       /\ files' = IF o = "ok" THEN files \cup { getFileExtension(formats[fmtIdx]) } ELSE files
       /\ attempts' = Append(attempts, Attempt(formats[fmtIdx], o))
       /\ IF Catch(o) = "continue"
            THEN /\ fmtIdx' = fmtIdx + 1 /\ pc' = AfterFormat(fmtIdx + 1)
                 /\ UNCHANGED << op, ret >>
            ELSE /\ op' = "none" /\ pc' = "idle" /\ fmtIdx' = fmtIdx
                 /\ ret' = Throw(SaveError(formats[fmtIdx], o).message)
  /\ UNCHANGED << saverFrame, calls, formats, hasPage >>

\* saveResults: if (page) await this.takeScreenshot(page, outputDir), errors caught
SaverScreenshot ==
  /\ op = "saveResults" /\ pc = "screenshot"
  /\ \E o \in CallOutcomes :
       /\ last' = Ev("screenshot", "search-results.png", o)
       /\ files' = IF o = "ok" THEN files \cup { "search-results.png" } ELSE files
       /\ attempts' = Append(attempts, [ format |-> "screenshot", out |-> o,
                                         err |-> [ message |-> "", format |-> "screenshot" ],
                                         file |-> IF o = "ok" THEN "search-results.png" ELSE NULL ])
  /\ pc' = "return"
  /\ UNCHANGED << saverFrame, op, fmtIdx, calls, ret, formats, hasPage >>

\* saveResults: the closing console.log and the return
SaverReturn ==
  /\ op = "saveResults" /\ pc = "return"
  /\ op' = "none" /\ pc' = "idle" /\ ret' = Value(<< >>)
  /\ UNCHANGED << saverFrame, fmtIdx, files, calls, last, formats, hasPage, attempts >>

SaverNext ==
  \/ \E fs \in FormatLists : \E p \in BOOLEAN : SaverStart(fs, p)
  \/ SaverEnsureDir
  \/ SaverSaveInFormat
  \/ SaverScreenshot
  \/ SaverReturn

SpecSaver == SaverInit /\ [][SaverNext]_vars

\* --------------------------------------------------- ResultFormatter alone
\* A string is a sequence of glyphs; a literal chunk of a template counts as one glyph.
\* largest number of entries of a category in a formatted aggregate
MaxRows == 1

Lit(s) == << s >>
NL == << "\n" >>
Num(n) == << ToString(n) >>
Quote == "\""

RECURSIVE Flatten(_)
Flatten(ss) == IF ss = << >> THEN << >> ELSE Head(ss) \o Flatten(Tail(ss))

RECURSIVE JoinWith(_, _)
JoinWith(ss, sep) ==
  IF ss = << >> THEN << >>
  ELSE IF Len(ss) = 1 THEN Head(ss) ELSE Head(ss) \o sep \o JoinWith(Tail(ss), sep)

\* str.replace(/g/g, to)
RECURSIVE Replace(_, _, _)
Replace(s, g, to) ==
  IF s = << >> THEN << >>
  ELSE (IF Head(s) = g THEN to ELSE << Head(s) >>) \o Replace(Tail(s), g, to)

\* JavaScript truthiness of a nullable string, x || 'N/A', x || '' and `${x}`
Truthy(x) == x.t = "val" /\ Len(x.v) > 0
OrNA(x) == IF Truthy(x) THEN x.v ELSE Lit("N/A")
OrBlank(x) == IF Truthy(x) THEN x.v ELSE << >>
Interp(x) == IF x.t = "null" THEN Lit("null") ELSE x.v

\* ResultFormatter.escapeCsvField: embedded quotes are doubled
escapeCsvField(s) == Replace(s, Quote, << Quote, Quote >>)

\* ResultFormatter.escapeHtml: the five replacements, ampersand first
escapeHtml(s) ==
  Replace(Replace(Replace(Replace(Replace(s, "&", << "&", "a", "m", "p", ";" >>),
                                  "<", << "&", "l", "t", ";" >>),
                          ">", << "&", "g", "t", ";" >>),
                  Quote, << "&", "q", "u", "o", "t", ";" >>),
          "'", << "&", "#", "0", "3", "9", ";" >>)

\* the entries a formatted aggregate may hold
\* (deepLinks << >> stands for the absent member: the extractor stores undefined for no links;
\* followUpResults is a member only once performFollowUpSearch has stored it)
OrganicSamples(i) ==
  { [ position |-> i, title |-> Val(<< "T", Quote >>), url |-> Val(<< "h" >>), snippet |-> Val(<< "s", "," >>),
      deepLinks |-> << [ text |-> Val(<< "d" >>), url |-> Val(<< "h" >>) ] >>,
      followUpSearched |-> TRUE,
      followUpResults |-> [ title |-> << "P", "\\" >>, content |-> Val(<< "x", "\n", "y", "..." >>),
                            url |-> << "h" >> ] ],
    [ position |-> i, title |-> Null, url |-> Null, snippet |-> Null, deepLinks |-> << >>,
      followUpSearched |-> FALSE ] }
FeaturedSamples ==
  { [ content |-> Val(<< "c", "<" >>), source |-> Val(<< "w" >>), url |-> Val(<< "h" >>) ],
    [ content |-> Null, source |-> Null, url |-> Null ] }
VideoSamples ==
  { [ title |-> Val(<< "v", "&" >>), source |-> Val(<< "w" >>), duration |-> Val(<< "3" >>), url |-> Val(<< "h" >>) ],
    [ title |-> Null, source |-> Null, duration |-> Null, url |-> Null ] }
ImageSamples ==
  { [ src |-> Val(<< "i" >>), alt |-> Null, title |-> Val(<< "p" >>), url |-> Val(<< "h" >>), dimensions |-> Null ] }

CategoryLists(c) ==
  UNION { CASE c = "organicResults" ->
                 { l \in [ 1..n -> UNION { OrganicSamples(i) : i \in 1..n } ] : \A i \in 1..n : l[i].position = i }
            [] c = "featuredSnippets" -> [ 1..n -> FeaturedSamples ]
            [] c = "videos" -> [ 1..n -> VideoSamples ]
            [] c = "images" -> [ 1..n -> ImageSamples ]
            [] c = "peopleAlsoAsk" -> [ 1..n -> { << "w", "?" >> } ]
            [] OTHER -> [ 1..n -> { << "r" >> } ]
          : n \in { 0, MaxRows } }

\* the aggregates handed to the formatter: every category absent, empty or filled
RECURSIVE AggregatesOver(_)
AggregatesOver(i) ==
  IF i = 0
    THEN { [ query |-> << "a", "&", "b" >>, timestamp |-> << "2024-01-01" >> ] }
    ELSE UNION { { r } \cup { r @@ (Categories[i] :> l) : l \in CategoryLists(Categories[i]) } :
                 r \in AggregatesOver(i - 1) }

\* if (results.<category> && results.<category>.length > 0)
ShownIfPresent(r, c) == c \in DOMAIN r
Shown(r, c) == c \in DOMAIN r /\ Len(r[c]) > 0

\* ---- formatAsText
TextHeader(name, n) == << "=== ", name, " (" >> \o Num(n) \o Lit(") ===") \o NL \o NL

TextOrganic(e, i) ==
  Lit("Result #") \o Num(i) \o Lit(":") \o NL
    \o Lit("- Title: ") \o OrNA(e.title) \o NL
    \o Lit("- URL: ") \o OrNA(e.url) \o NL
    \o Lit("- Snippet: ") \o OrNA(e.snippet) \o NL
    \o (IF Len(e.deepLinks) > 0
          THEN Lit("- Deep Links:") \o NL
                 \o Flatten([ j \in 1..Len(e.deepLinks) |->
                      Lit("  * ") \o Interp(e.deepLinks[j].text) \o Lit(": ") \o Interp(e.deepLinks[j].url) \o NL ])
          ELSE << >>)
    \o NL

TextFeatured(e, i) ==
  Lit("Snippet #") \o Num(i) \o Lit(":") \o NL
    \o Interp(e.content) \o NL
    \o (IF Truthy(e.source) THEN Lit("Source: ") \o e.source.v \o NL ELSE << >>)
    \o NL

TextNumbered(s, i) == Num(i) \o Lit(". ") \o s \o NL

TextVideo(e, i) ==
  Lit("Video #") \o Num(i) \o Lit(":") \o NL
    \o Lit("- Title: ") \o OrNA(e.title) \o NL
    \o Lit("- Source: ") \o OrNA(e.source) \o NL
    \o (IF Truthy(e.duration) THEN Lit("- Duration: ") \o e.duration.v \o NL ELSE << >>)
    \o (IF Truthy(e.url) THEN Lit("- URL: ") \o e.url.v \o NL ELSE << >>)
    \o NL

TextImage(e, i) ==
  Lit("Image #") \o Num(i) \o Lit(":") \o NL
    \o Lit("- Title: ") \o OrNA(e.title) \o NL
    \o Lit("- Alt Text: ") \o OrNA(e.alt) \o NL
    \o (IF Truthy(e.dimensions) THEN Lit("- Dimensions: ") \o e.dimensions.v \o NL ELSE << >>)
    \o (IF Truthy(e.url) THEN Lit("- URL: ") \o e.url.v \o NL ELSE << >>)
    \o (IF Truthy(e.src) THEN Lit("- Source: ") \o e.src.v \o NL ELSE << >>)
    \o NL

formatAsText(r) ==
  Lit("SEARCH RESULTS FOR: ") \o << Quote >> \o r.query \o << Quote >> \o NL
    \o Lit("Extracted on: ") \o r.timestamp \o NL \o NL
    \o (IF Shown(r, "organicResults")
          THEN TextHeader("ORGANIC SEARCH RESULTS", Len(r.organicResults)) \o Flatten([ i \in 1..Len(r.organicResults) |-> TextOrganic(r.organicResults[i], i) ])
          ELSE << >>)
    \o (IF Shown(r, "featuredSnippets")
          THEN TextHeader("FEATURED SNIPPETS", Len(r.featuredSnippets)) \o Flatten([ i \in 1..Len(r.featuredSnippets) |-> TextFeatured(r.featuredSnippets[i], i) ])
          ELSE << >>)
    \o (IF Shown(r, "peopleAlsoAsk")
          THEN TextHeader("PEOPLE ALSO ASK", Len(r.peopleAlsoAsk)) \o Flatten([ i \in 1..Len(r.peopleAlsoAsk) |-> TextNumbered(r.peopleAlsoAsk[i], i) ]) \o NL
          ELSE << >>)
    \o (IF Shown(r, "relatedSearches")
          THEN TextHeader("RELATED SEARCHES", Len(r.relatedSearches)) \o Flatten([ i \in 1..Len(r.relatedSearches) |-> TextNumbered(r.relatedSearches[i], i) ]) \o NL
          ELSE << >>)
    \o (IF Shown(r, "videos")
          THEN TextHeader("VIDEO RESULTS", Len(r.videos)) \o Flatten([ i \in 1..Len(r.videos) |-> TextVideo(r.videos[i], i) ])
          ELSE << >>)
    \o (IF Shown(r, "images")
          THEN TextHeader("IMAGE RESULTS", Len(r.images)) \o Flatten([ i \in 1..Len(r.images) |-> TextImage(r.images[i], i) ])
          ELSE << >>)

\* ---- formatAsCsv
CsvHeader(cols) == JoinWith([ i \in 1..Len(cols) |-> Lit(cols[i]) ], Lit(",")) \o NL
CsvQuoted(x) == << Quote >> \o escapeCsvField(OrBlank(x)) \o << Quote >>
CsvRow(cells) == JoinWith(cells, Lit(",")) \o NL

OrganicHeader == CsvHeader(<< "Type", "Position", "Title", "URL", "Snippet" >>)
FeaturedHeader == CsvHeader(<< "Type", "Content", "Source", "URL" >>)
VideoHeader == CsvHeader(<< "Type", "Title", "Source", "Duration", "URL" >>)

CsvOrganic(e, i) ==
  CsvRow(<< Lit("Organic"), Num(e.position), CsvQuoted(e.title), CsvQuoted(e.url), CsvQuoted(e.snippet) >>)
CsvFeatured(e, i) ==
  CsvRow(<< Lit("Featured"), Num(i), CsvQuoted(e.content), CsvQuoted(e.source), CsvQuoted(e.url) >>)
CsvVideo(e, i) ==
  CsvRow(<< Lit("Video"), Num(i), CsvQuoted(e.title), CsvQuoted(e.source), CsvQuoted(e.duration),
            CsvQuoted(e.url) >>)

formatAsCsv(r) ==
  (IF Shown(r, "organicResults")
     THEN OrganicHeader \o Flatten([ i \in 1..Len(r.organicResults) |-> CsvOrganic(r.organicResults[i], i) ]) \o NL
     ELSE << >>)
    \o (IF Shown(r, "featuredSnippets")
          THEN FeaturedHeader \o Flatten([ i \in 1..Len(r.featuredSnippets) |-> CsvFeatured(r.featuredSnippets[i], i) ]) \o NL
          ELSE << >>)
    \o (IF Shown(r, "videos")
          THEN VideoHeader \o Flatten([ i \in 1..Len(r.videos) |-> CsvVideo(r.videos[i], i) ])
          ELSE << >>)

\* ---- formatAsJson: JSON.stringify(results, null, 2), as its token stream without the indentation
JsonStringRaw(s) == << Quote >> \o s \o << Quote >>
JsonString(s) ==
  << Quote >>
    \o Replace(Replace(Replace(s, "\\", << "\\", "\\" >>), Quote, << "\\", Quote >>), "\n", << "\\", "n" >>)
    \o << Quote >>
JsonNullable(x) == IF x.t = "null" THEN Lit("null") ELSE JsonString(x.v)
JsonMember(k, v) == JsonString(Lit(k)) \o Lit(":") \o v
JsonObject(members) == Lit("{") \o JoinWith(members, Lit(",")) \o Lit("}")
JsonArray(items) == Lit("[") \o JoinWith(items, Lit(",")) \o Lit("]")

JsonDeepLink(l) ==
  JsonObject(<< JsonMember("text", JsonNullable(l.text)), JsonMember("url", JsonNullable(l.url)) >>)

JsonEntry(c, e) ==
  CASE c = "organicResults" ->
         JsonObject(<< JsonMember("position", Num(e.position)),
                       JsonMember("title", JsonNullable(e.title)),
                       JsonMember("url", JsonNullable(e.url)),
                       JsonMember("snippet", JsonNullable(e.snippet)) >>
                    \o (IF Len(e.deepLinks) > 0
                          THEN << JsonMember("deepLinks",
                                    JsonArray([ j \in 1..Len(e.deepLinks) |-> JsonDeepLink(e.deepLinks[j]) ])) >>
                          ELSE << >>)
                    \o << JsonMember("followUpSearched", Lit(IF e.followUpSearched THEN "true" ELSE "false")) >>
                    \o (IF "followUpResults" \in DOMAIN e
                          THEN << JsonMember("followUpResults",
                                    JsonObject(<< JsonMember("title", JsonString(e.followUpResults.title)),
                                                  JsonMember("content", JsonNullable(e.followUpResults.content)),
                                                  JsonMember("url", JsonString(e.followUpResults.url)) >>)) >>
                          ELSE << >>))
    [] c = "featuredSnippets" ->
         JsonObject(<< JsonMember("content", JsonNullable(e.content)),
                       JsonMember("source", JsonNullable(e.source)),
                       JsonMember("url", JsonNullable(e.url)) >>)
    [] c = "videos" ->
         JsonObject(<< JsonMember("title", JsonNullable(e.title)),
                       JsonMember("source", JsonNullable(e.source)),
                       JsonMember("duration", JsonNullable(e.duration)),
                       JsonMember("url", JsonNullable(e.url)) >>)
    [] c = "images" ->
         JsonObject(<< JsonMember("src", JsonNullable(e.src)),
                       JsonMember("alt", JsonNullable(e.alt)),
                       JsonMember("title", JsonNullable(e.title)),
                       JsonMember("url", JsonNullable(e.url)),
                       JsonMember("dimensions", JsonNullable(e.dimensions)) >>)
    [] OTHER -> JsonString(e)

\* the members of the categories from index i on, in the order extractSearchResults adds them
RECURSIVE JsonCategories(_, _)
JsonCategories(r, i) ==
  IF i > Len(Categories) THEN << >>
  ELSE (IF Categories[i] \in DOMAIN r
          THEN << JsonMember(Categories[i],
                             JsonArray([ j \in 1..Len(r[Categories[i]]) |->
                                         JsonEntry(Categories[i], r[Categories[i]][j]) ])) >>
          ELSE << >>)
       \o JsonCategories(r, i + 1)

formatAsJson(r) ==
  JsonObject(<< JsonMember("query", JsonString(r.query)), JsonMember("timestamp", JsonString(r.timestamp)) >>
               \o JsonCategories(r, 1)
               \o (IF "pageText" \in DOMAIN r THEN << JsonMember("pageText", JsonString(r.pageText)) >> ELSE << >>))

\* ---- formatAsHtml (the style sheet is one literal chunk)
HtmlOrganic(e, i) ==
  Lit("<div class=result>")
    \o Lit("<div class=title>") \o escapeHtml(OrNA(e.title)) \o Lit("</div>")
    \o Lit("<div class=url>") \o escapeHtml(OrNA(e.url)) \o Lit("</div>")
    \o Lit("<div class=snippet>") \o escapeHtml(OrNA(e.snippet)) \o Lit("</div>")
    \o (IF Len(e.deepLinks) > 0
          THEN Lit("<div class=deep-links>")
                 \o Flatten([ j \in 1..Len(e.deepLinks) |->
                      Lit("<div class=deep-link><a href=") \o << Quote >>
                        \o escapeHtml(IF Truthy(e.deepLinks[j].url) THEN e.deepLinks[j].url.v ELSE Lit("#"))
                        \o << Quote >> \o Lit(">")
                        \o escapeHtml(IF Truthy(e.deepLinks[j].text) THEN e.deepLinks[j].text.v ELSE Lit("Link"))
                        \o Lit("</a></div>") ])
                 \o Lit("</div>")
          ELSE << >>)
    \o Lit("</div>")

HtmlFeatured(e, i) ==
  Lit("<div class=featured>")
    \o Lit("<div>") \o escapeHtml(OrNA(e.content)) \o Lit("</div>")
    \o (IF Truthy(e.source)
          THEN Lit("<div class=meta>Source: ") \o escapeHtml(e.source.v) \o Lit("</div>")
          ELSE << >>)
    \o Lit("</div>")

HtmlItem(s, i) == Lit("<li>") \o escapeHtml(s) \o Lit("</li>")

HtmlVideo(e, i) ==
  Lit("<div class=video><div class=video-thumbnail></div><div class=video-info>")
    \o Lit("<div class=title>") \o escapeHtml(OrNA(e.title)) \o Lit("</div>")
    \o Lit("<div class=meta>")
    \o (IF Truthy(e.source) THEN escapeHtml(e.source.v) ELSE << >>)
    \o (IF Truthy(e.duration) THEN Lit(" * ") \o escapeHtml(e.duration.v) ELSE << >>)
    \o Lit("</div></div></div>")

HtmlHeading(name, n) == << "<h2>", name, " (" >> \o Num(n) \o Lit(")</h2>")

formatAsHtml(r) ==
  Lit("<!DOCTYPE html><html><head>")
    \o Lit("<title>Search Results for ") \o << Quote >> \o r.query \o << Quote >> \o Lit("</title>")
    \o Lit("<style>...</style></head><body>")
    \o Lit("<h1>Search Results for ") \o << Quote >> \o escapeHtml(r.query) \o << Quote >> \o Lit("</h1>")
    \o Lit("<p>Extracted on: ") \o r.timestamp \o Lit("</p>")
    \o (IF Shown(r, "organicResults")
          THEN HtmlHeading("Organic Search Results", Len(r.organicResults)) \o Flatten([ i \in 1..Len(r.organicResults) |-> HtmlOrganic(r.organicResults[i], i) ])
          ELSE << >>)
    \o (IF Shown(r, "featuredSnippets")
          THEN HtmlHeading("Featured Snippets", Len(r.featuredSnippets)) \o Flatten([ i \in 1..Len(r.featuredSnippets) |-> HtmlFeatured(r.featuredSnippets[i], i) ])
          ELSE << >>)
    \o (IF Shown(r, "peopleAlsoAsk")
          THEN HtmlHeading("People Also Ask", Len(r.peopleAlsoAsk)) \o Lit("<ul class=questions>")
                 \o Flatten([ i \in 1..Len(r.peopleAlsoAsk) |-> HtmlItem(r.peopleAlsoAsk[i], i) ]) \o Lit("</ul>")
          ELSE << >>)
    \o (IF Shown(r, "relatedSearches")
          THEN HtmlHeading("Related Searches", Len(r.relatedSearches)) \o Lit("<ul class=related>")
                 \o Flatten([ i \in 1..Len(r.relatedSearches) |-> HtmlItem(r.relatedSearches[i], i) ]) \o Lit("</ul>")
          ELSE << >>)
    \o (IF Shown(r, "videos")
          THEN HtmlHeading("Video Results", Len(r.videos)) \o Flatten([ i \in 1..Len(r.videos) |-> HtmlVideo(r.videos[i], i) ])
          ELSE << >>)
    \o Lit("</body></html>")

\* ---- ResultFormatter.format
Render(f, out) == [ format |-> f, kind |-> "ok", out |-> out, err |-> [ message |-> "", format |-> "" ] ]

format(r, f) ==
  IF ~Supported(f)
    THEN [ format |-> f, kind |-> "throw", out |-> << >>, err |-> UnsupportedFormat(f) ]
    ELSE CASE f = "json" -> Render(f, formatAsJson(r))
           [] f = "text" -> Render(f, formatAsText(r))
           [] f = "csv" -> Render(f, formatAsCsv(r))
           [] OTHER -> Render(f, formatAsHtml(r))

FormatInit ==
  /\ Standalone
  /\ results \in AggregatesOver(Len(Categories))
  /\ text = << >> /\ orig = << >> /\ applied = << >>
  /\ formats = << >> /\ hasPage = FALSE /\ attempts = << >> /\ rendered = NoRender
  /\ crawl = NoCrawl /\ variants = NoVariants

\* a caller invokes formatter.format(results, f) once on the aggregate it holds
Format(f) ==
  /\ rendered.format = "none"
  /\ rendered' = format(results, f)
  /\ UNCHANGED << browser, page, openBrowsers, launcher, config, query, op, pc, stage, selIdx, cat,
                  fmtIdx, results, organicResults, resultIndex, depth, entry, entry0, navs, calls,
                  ret, firstKind, last, timingData, files, doc, held, text, orig, applied, formats,
                  hasPage, attempts, crawl, variants >>

FormatNext == \E f \in RequestedFormats : Format(f)

SpecFormat == FormatInit /\ [][FormatNext]_vars

\* ------------------------------------------------------- Crawler.crawlMultiple
\* A Crawler owns one BrowserManager. crawlMultiple starts the crawl() calls of a batch
\* together (batch.map) and awaits them all; each call runs from one await to the next
\* without interruption, and the calls' continuations interleave freely.
\* number of urls handed to crawlMultiple
MaxUrls == 2

\* the urls, named by their number; a document is named by the url it was loaded from
CrawlUrls == [ i \in 1..MaxUrls |-> i ]

\* the variables a crawl leaves alone
crawlFrame ==
  << config, query, stage, selIdx, cat, fmtIdx, results, organicResults, resultIndex, depth,
     entry, entry0, navs, calls, firstKind, last, timingData, doc, held, text, orig, applied,
     formats, hasPage, attempts, rendered, variants >>

\* a new Crawler, or one whose browser an earlier crawl() has launched; crawlMultiple(urls,
\* outputFolder, k) is called on it with the default options
CrawlerInit ==
  /\ \E b \in { 0, 1 } :
       /\ browser = b /\ page = b
       /\ openBrowsers = { b } \ { 0 }
       /\ launcher = IF b = 0 THEN << >> ELSE << "crawl" >>
       /\ \E k \in 1..MaxUrls :
            crawl = [ urls |-> CrawlUrls, k |-> k, i |-> 1, units |-> << >>,
                      docs |-> [ h \in { b } \ { 0 } |-> 0 ] ]
  /\ op = "crawlMultiple" /\ pc = "batch" /\ ret = NoRet /\ files = {}
  /\ doc = "none" /\ held = << >>
  /\ config = DEFAULT_CONFIG /\ query = "puppeteer tutorial" /\ stage = ""
  /\ selIdx = 0 /\ cat = 0 /\ fmtIdx = 0 /\ results = BlankResults
  /\ organicResults = << >> /\ resultIndex = 0 /\ depth = 0
  /\ entry = BlankEntry /\ entry0 = entry /\ navs = 0 /\ calls = 0
  /\ firstKind = "none" /\ last = NoEv /\ timingData = {}
  /\ text = << >> /\ orig = << >> /\ applied = << >>
  /\ formats = << >> /\ hasPage = FALSE /\ attempts = << >> /\ rendered = NoRender
  /\ variants = NoVariants

\* crawl(url), from its entry to its first await: with no browser it calls initialize, which
\* awaits puppeteer.launch; otherwise it takes browserManager.getPage() and awaits page.goto
Unit(u, p) == [ url |-> u, pc |-> IF p = 0 THEN "launch" ELSE "goto", pg |-> p, b |-> 0 ]

\* the calls of the batch have all returned
Settled == \A j \in 1..Len(crawl.units) : crawl.units[j].pc = "done"

\* crawlMultiple: batch = urls.slice(i, i + k); promises = batch.map(url => this.crawl(url));
\* every call of the batch sees the same browserManager, and the page is asked to navigate
\* once per call, the last request standing
CrawlBatch ==
  /\ op = "crawlMultiple" /\ pc = "batch" /\ Settled
  /\ crawl.i <= Len(crawl.urls)
  /\ LET batch == SubSeq(crawl.urls, crawl.i, Min(crawl.i + crawl.k - 1, Len(crawl.urls)))
         p == IF isInitialized THEN page ELSE 0
     IN crawl' = [ crawl EXCEPT !.i = @ + crawl.k,
                                !.units = [ j \in 1..Len(batch) |-> Unit(batch[j], p) ],
                                !.docs = IF p = 0 THEN @ ELSE [ @ EXCEPT ![p] = batch[Len(batch)] ] ]
  /\ UNCHANGED << sessionVars, op, pc, ret, files, crawlFrame >>

\* BrowserManager.initialize: this.browser = await puppeteer.launch(...), then
\* this.browser.newPage() is called on the browser just stored
CrawlLaunched(j) ==
  /\ op = "crawlMultiple" /\ j \in 1..Len(crawl.units) /\ crawl.units[j].pc = "launch"
  /\ \E o \in { "ok", "launchFails" } :
       IF o = "ok"
         THEN /\ browser' = NewHandle
              /\ openBrowsers' = openBrowsers \cup { NewHandle }
              /\ launcher' = Append(launcher, "crawl")
              /\ crawl' = [ crawl EXCEPT !.units[j].pc = "newPage", !.units[j].b = NewHandle ]
         ELSE /\ crawl' = [ crawl EXCEPT !.units[j].pc = "failed" ]
              /\ UNCHANGED << browser, openBrowsers, launcher >>
  /\ UNCHANGED << page, op, pc, ret, files, crawlFrame >>

\* BrowserManager.initialize: this.page = await this.browser.newPage(), then
\* this.page.setViewport(...) is awaited
CrawlNewPage(j) ==
  /\ op = "crawlMultiple" /\ j \in 1..Len(crawl.units) /\ crawl.units[j].pc = "newPage"
  /\ page' = crawl.units[j].b
  /\ crawl' = [ crawl EXCEPT !.units[j].pc = "setup", !.docs = @ @@ (crawl.units[j].b :> 0) ]
  /\ UNCHANGED << browser, openBrowsers, launcher, op, pc, ret, files, crawlFrame >>

\* BrowserManager.initialize returns after setViewport and setUserAgent; crawl goes on with
\* const page = this.browserManager.getPage() and awaits page.goto(url)
CrawlSetup(j) ==
  /\ op = "crawlMultiple" /\ j \in 1..Len(crawl.units) /\ crawl.units[j].pc = "setup"
  /\ crawl' = [ crawl EXCEPT !.units[j].pc = "goto", !.units[j].pg = page,
                             !.docs[page] = crawl.units[j].url ]
  /\ UNCHANGED << sessionVars, op, pc, ret, files, crawlFrame >>

\* page.goto(url) settles: it rejects, or it resolves with the page showing this call's url or
\* the url of the navigation that superseded it; then page.content() is awaited
CrawlGoto(j) ==
  /\ op = "crawlMultiple" /\ j \in 1..Len(crawl.units) /\ crawl.units[j].pc = "goto"
  /\ \E o \in GotoOutcomes :
       IF o = "ok"
         THEN \E d \in { crawl.units[j].url, crawl.docs[crawl.units[j].pg] } :
                crawl' = [ crawl EXCEPT !.units[j].pc = "content", !.docs[crawl.units[j].pg] = d ]
         ELSE crawl' = [ crawl EXCEPT !.units[j].pc = "failed" ]
  /\ UNCHANGED << sessionVars, op, pc, ret, files, crawlFrame >>

\* htmlContent = await page.content(); fs.writeFileSync(htmlFilePath, htmlContent) under the
\* file name generateFilenameFromUrl(url); return
CrawlContent(j) ==
  /\ op = "crawlMultiple" /\ j \in 1..Len(crawl.units) /\ crawl.units[j].pc = "content"
  /\ files' = files \cup { [ name |-> crawl.units[j].url, content |-> crawl.docs[crawl.units[j].pg] ] }
  /\ crawl' = [ crawl EXCEPT !.units[j].pc = "done" ]
  /\ UNCHANGED << sessionVars, op, pc, ret, crawlFrame >>

\* await Promise.all(promises) settles once the calls of the batch are over: with a failed call
\* crawlMultiple throws, after the last batch it returns
CrawlReturn ==
  /\ op = "crawlMultiple" /\ pc = "batch"
  /\ \A j \in 1..Len(crawl.units) : crawl.units[j].pc \in { "done", "failed" }
  /\ ~Settled \/ crawl.i > Len(crawl.urls)
  /\ pc' = "returned"
  /\ ret' = IF Settled THEN Value(files) ELSE Throw("crawl failed")
  /\ UNCHANGED << sessionVars, op, files, crawl, crawlFrame >>

\* Crawler.close: await this.browserManager.close()
CrawlerClose ==
  /\ op = "crawlMultiple" /\ pc = "returned"
  /\ close
  /\ op' = "none" /\ pc' = "idle"
  /\ UNCHANGED << ret, files, crawl, crawlFrame >>

CrawlerNext ==
  \/ CrawlBatch
  \/ \E j \in 1..MaxUrls : CrawlLaunched(j)
  \/ \E j \in 1..MaxUrls : CrawlNewPage(j)
  \/ \E j \in 1..MaxUrls : CrawlSetup(j)
  \/ \E j \in 1..MaxUrls : CrawlGoto(j)
  \/ \E j \in 1..MaxUrls : CrawlContent(j)
  \/ CrawlReturn
  \/ CrawlerClose

SpecCrawler == CrawlerInit /\ [][CrawlerNext]_vars

\* ------------------------------------- the two SearchResultScraper classes
\* The file holds the class twice: with performance timers (lines 28-345) and without
\* (lines 347-592). Both are run on one environment, fixed beforehand: what initialize and the
\* search stage end with, whether the output directory exists, what each write and the
\* screenshot end with.
Variants == { "instrumented", "plain" }

\* ResultSaver.saveResults(results, outputDir, fs, page) as the operations it performs:
\* ensureDirectoryExists (a throw ends the call), one write per format (a failure is caught),
\* the screenshot
SaverOps(fs, dir, env) ==
  << Ev("ensureDirectoryExists", "", dir) >>
    \o (IF dir = "throws" THEN << >>
        ELSE [ i \in 1..Len(fs) |-> Ev("writeFileSync", getFileExtension(fs[i]), env.write[fs[i]]) ]
               \o << Ev("screenshot", "search-results.png", env.shot) >>)

\* SearchResultScraper.saveResults: the instrumented class calls the saver once per format
\* with [format], the plain class once with all formats
SaveOps(v, env) ==
  IF v = "plain" \/ env.dir = "throws"
    THEN SaverOps(IF v = "plain" THEN SaveFormats ELSE << SaveFormats[1] >>, env.dir, env)
    ELSE Flatten([ i \in 1..Len(SaveFormats) |->
                   SaverOps(<< SaveFormats[i] >>, IF i = 1 THEN env.dir ELSE "exists", env) ])

\* run(): initialize, performSearch, extractSearchResults, saveResults; close in finally
RunOps(v, env) ==
  << Ev("initialize", "", env.init) >>
    \o (IF env.init # "ok" THEN << >>
        ELSE << Ev("performSearch", "", env.search) >>
               \o (IF env.search # "ok" THEN << >>
                   ELSE << Ev("extractSearchResults", "", "ok") >> \o SaveOps(v, env)))
    \o << Ev("close", "", "ok") >>

variantFrame ==
  << browser, page, openBrowsers, launcher, config, query, op, pc, stage, selIdx, cat, fmtIdx,
     results, organicResults, resultIndex, depth, entry, entry0, navs, calls, ret, firstKind,
     last, timingData, files, doc, held, text, orig, applied, formats, hasPage, attempts,
     rendered, crawl >>

VariantInit ==
  /\ Standalone
  /\ results = BlankResults
  /\ text = << >> /\ orig = << >> /\ applied = << >>
  /\ formats = << >> /\ hasPage = FALSE /\ attempts = << >> /\ rendered = NoRender
  /\ crawl = NoCrawl
  /\ \E i \in { "ok", "launchFails" } : \E s \in CallOutcomes :
     \E d \in { "exists", "created", "throws" } : \E sh \in CallOutcomes :
     \E w \in [ { SaveFormats[j] : j \in 1..Len(SaveFormats) } -> CallOutcomes ] :
       variants = [ env |-> [ init |-> i, search |-> s, dir |-> d, write |-> w, shot |-> sh ],
                    n |-> [ v \in Variants |-> 0 ] ]

\* the run() of one class performs its next operation
VariantStep(v) ==
  /\ variants.n[v] < Len(RunOps(v, variants.env))
  /\ variants' = [ variants EXCEPT !.n[v] = @ + 1 ]
  /\ UNCHANGED variantFrame

VariantNext == \E v \in Variants : VariantStep(v)

SpecVariants == VariantInit /\ [][VariantNext]_vars

\* ------------------------------------------------------------------ claims
\* s holds the glyphs of t at consecutive positions
Contains(s, t) == \E i \in 0..(Len(s) - Len(t)) : SubSeq(s, i + 1, i + Len(t)) = t

\* C1: whenever a call of run() has completed, by return or by exception and whichever
\* stage failed, the finally block has run BrowserManager.close(): the session is not
\* initialized and no browser launched by a run is still open.
C1_TeardownGuaranteed ==
  (op = "none" /\ ret.op = "run") =>
    /\ ~isInitialized
    /\ last = Ev("close", "", "ok")
    /\ \A b \in openBrowsers : launcher[b] # "run"

\* a run that launched its browser and then failed in the save stage has completed
C1_Witness ==
  /\ op = "none" /\ ret.op = "run" /\ ret.kind = "throw" /\ ret.stage = "save"
  /\ launcher # << >> /\ launcher[Len(launcher)] = "run"

\* C2: no wait of run() that times out makes run() fail, so run() never ends with a
\* timeout error.
C2_TimeoutNeverThrows ==
  ~(ret.op = "run" /\ ret.kind = "throw" /\ ret.err = "TimeoutError")

\* C3: when an extractor's region wait times out, extract() is done at once: no in-page
\* evaluation is attempted, the list it returns is empty, and no error is raised.
C3_TimeoutGoesToDone ==
  [][ (pc = "wait" /\ last'.op = "waitForSelector" /\ last'.out = "timeout") =>
        /\ pc' \in { "category", "pageText", "index" }
        /\ ret' = ret
        /\ IF op = "run" THEN results'[Categories[cat]] = << >> ELSE organicResults' = << >> ]_vars

\* all six regions were requested, the last wait (images) timed out and every list is empty
C3_Witness ==
  /\ op = "run" /\ pc = "pageText"
  /\ last = Ev("waitForSelector", SELECTORS.images, "timeout")
  /\ \A c \in CategorySet : c \in DOMAIN results /\ results[c] = << >>

\* C4: no exception of an extraction step (the six categories, the page text) escapes
\* extractSearchResults, so run() never fails in its extraction stage.
C4_ExtractionNeverAborts ==
  ~(ret.op = "run" /\ ret.kind = "throw" /\ ret.stage = "extract")

\* C5: in the returned aggregate a category's field is present exactly when the category
\* is enabled, and an extractor is only ever started for an enabled category.
C5_PresentIffEnabled ==
  /\ (ret.op = "run" /\ ret.kind = "value") =>
       \A c \in CategorySet : (c \in DOMAIN ret.val) <=> config[c]
  /\ (op = "run" /\ pc \in { "wait", "evaluate" }) => config[Categories[cat]]

\* the default configuration: videos requested and empty, images not requested and absent
C5_Witness ==
  /\ ret.op = "run" /\ ret.kind = "value" /\ config = DEFAULT_CONFIG
  /\ ret.val.videos = << >> /\ "images" \notin DOMAIN ret.val

\* C6: the search stage aborts run() exactly when the last pattern of
\* SEARCH_INPUT_SELECTORS has yielded no control either; nothing else in it aborts the run.
C6_OnlyMissingInputAborts ==
  /\ (ret.op = "run" /\ ret.kind = "throw" /\ ret.stage = "search") =>
       ret.err = "Could not find search input"
  /\ ( /\ op = "run" /\ last.op = "$" /\ last.out # "element"
       /\ last.arg = SEARCH_INPUT_SELECTORS[Len(SEARCH_INPUT_SELECTORS)] ) =>
       (ret.kind = "throw" /\ ret.err = "Could not find search input")

\* C7: a resolver call on an entry without url, or already followed up, or with depth <= 0
\* returns null, navigates nowhere and leaves the entry as it is.
C7_TripleGuard ==
  [][ ( /\ pc = "resolveGuard" /\ "url" \in DOMAIN entry
        /\ (entry.url \in { NULL, "" } \/ entry.followUpSearched \/ depth <= 0) ) =>
        /\ op' = "none" /\ ret'.kind = "null"
        /\ entry' = entry /\ navs' = navs /\ last' = last ]_vars

\* a second call with positive depth on an entry the first call has followed up was a no-op
C7_Witness ==
  /\ op = "none" /\ ret.op = "resolve" /\ ret.kind = "null" /\ calls = 2
  /\ entry.followUpSearched /\ depth > 0 /\ last = NoEv /\ navs = 1

C9_FlagOnlyOnSuccess ==
  [][ ( /\ pc \in { "resolveGoto", "resolveTitle", "resolveEvaluate" }
        /\ last' # last /\ last'.out \in { "timeout", "error", "throws" } ) =>
        (op' = "none" /\ ret'.kind = "null" /\ entry' = entry) ]_vars

\* C10: SearchResultScraper.performFollowUpSearch never ends with an exception.
C10_FollowUpNeverThrows ==
  ~(ret.op = "followUp" /\ ret.kind = "throw")

\* C11: after run() has returned an aggregate whose first organic entry has a url, a call
\* performFollowUpSearch(0) with positive depth that does not fail returns the captured
\* title and content of that entry's url and records followUpSearched and the result on
\* that entry of the aggregate.
C11_FollowUpOnAggregate ==
  ( /\ op = "none" /\ ret.op = "followUp" /\ ret.kind # "throw"
    /\ resultIndex = 0 /\ depth > 0
    /\ Len(held) >= 1 /\ ~Falsy(held[1].url) ) =>
    /\ ret.kind = "value" /\ ret.val.url = held[1].url
    /\ held[1].followUpSearched /\ held[1].followUpResults = ret.val

\* C12: the stored follow-up excerpt of a non-empty body text is that text unchanged when it
\* has 1000 characters or fewer, and its first 1000 characters followed by the marker when
\* it is longer: the marker is appended exactly when the text was truncated.
C12_MarkerIffTruncated ==
  (applied = << "excerpt" >> /\ Len(orig.v) > 0) =>
    IF Len(orig.v) <= ExcerptLimit
      THEN text = orig
      ELSE /\ text.t = "val"
           /\ text.v = SubSeq(orig.v, 1, ExcerptLimit) \o << ".", ".", "." >>

\* C13: a featured snippet's content longer than 100 characters is stored as its first 100
\* characters followed by one ellipsis (101 units); content of 100 characters or fewer is
\* stored unchanged; the stored text before the ellipsis is always a prefix of the original.
C13_SnippetTruncation ==
  (applied = << "snippet" >> /\ Len(orig.v) > 0) =>
    IF Len(orig.v) > 100
      THEN /\ text.t = "val" /\ Len(text.v) = 101
           /\ SubSeq(text.v, 1, 100) = SubSeq(orig.v, 1, 100)
           /\ text.v[101] = Ellipsis
      ELSE text = orig

\* a snippet of 150 characters has been stored as 101 units
C13_Witness ==
  /\ applied = << "snippet" >> /\ Len(orig.v) = 150 /\ Len(text.v) = 101

\* C14: applying the featured-snippet rule or the pageText rule to a value that already is
\* 100 characters followed by the ellipsis yields that same value.
C14_TruncationIdempotent ==
  [][ ( /\ text.t = "val" /\ Len(text.v) = 101 /\ text.v[101] = Ellipsis
        /\ applied' # applied
        /\ applied'[Len(applied')] \in { "snippet", "pageText" } ) =>
        text' = text ]_vars

\* a text of 150 characters went through the pageText rule twice and came out truncated
C14_Witness ==
  /\ applied = << "pageText", "pageText" >> /\ Len(orig.v) = 150
  /\ Len(text.v) = 101 /\ text.v[101] = Ellipsis

\* C15: every aggregate extractSearchResults hands back carries pageText, whatever the
\* extract options (all disabled included), and the field is at most 100 characters,
\* or 100 characters followed by one ellipsis.
C15_PageTextAlways ==
  /\ (op = "run" /\ stage = "save") => "pageText" \in DOMAIN results
  /\ (ret.op = "run" /\ ret.kind = "value") =>
       /\ "pageText" \in DOMAIN ret.val
       /\ \/ Len(ret.val.pageText) <= 100
          \/ Len(ret.val.pageText) = 101 /\ ret.val.pageText[101] = Ellipsis

\* a run with every category disabled returned an aggregate whose pageText was truncated
C15_Witness ==
  /\ ret.op = "run" /\ ret.kind = "value" /\ config = [ c \in CategorySet |-> FALSE ]
  /\ DOMAIN ret.val = { "query", "timestamp", "pageText" }
  /\ Len(ret.val.pageText) = 101

\* C16: for a requested format outside json, text, csv and html, ResultFormatter.format
\* fails with an error that names the format, and ResultSaver writes no file for it,
\* under no extension.
C16_UnsupportedWritesNothing ==
  /\ \A i \in 1..Len(attempts) :
       attempts[i].format \notin { "json", "text", "csv", "html", "screenshot" } =>
         /\ attempts[i].out = "unsupported"
         /\ attempts[i].err.message = "Unsupported output format"
         /\ attempts[i].err.format = attempts[i].format
         /\ attempts[i].file = NULL
  /\ (formats = << "xml" >>) => files \subseteq { "search-results.png" }

\* saveResults(results, dir, ["xml"], page) has completed and left only the screenshot
C16_Witness ==
  /\ op = "none" /\ ret.op = "saveResults" /\ formats = << "xml" >> /\ hasPage
  /\ Len(attempts) = 2 /\ attempts[1].format = "xml"
  /\ files = { "search-results.png" }

\* C17: an unsupported format is fatal: once saveInFormat has met one, saveResults ends
\* with that failure instead of returning.
C17_UnsupportedIsFatal ==
  ( /\ op = "none" /\ ret.op = "saveResults"
    /\ \E i \in 1..Len(attempts) : attempts[i].out = "unsupported" ) =>
    ret.kind = "throw"

\* C18: a failure while writing one save format is degraded: the step is followed by the
\* screenshot and the remaining formats with the aggregate untouched and no error pending,
\* and a run never ends with a write failure (in the save stage only a failing directory
\* creation aborts it).
C18_WriteFailureDegraded ==
  /\ [][ (op = "run" /\ pc = "saveInFormat" /\ last'.op = "writeFileSync" /\ last'.out = "throws") =>
           (pc' = "screenshot" /\ ret' = ret /\ results' = results /\ fmtIdx' = fmtIdx) ]_vars
  /\ []( (ret.op = "run" /\ ret.kind = "throw" /\ ret.stage = "save") => ret.err = "mkdir failed" )
  /\ []( (op = "run" /\ pc = "finally" /\ ret.kind = "value") =>
           (fmtIdx = Len(SaveFormats) /\ last.op = "screenshot" /\ ret.val = results) )

\* the json write failed, the text file and the screenshot were still written, and run()
\* returned the aggregate
C18_Witness ==
  /\ op = "none" /\ ret.op = "run" /\ ret.kind = "value"
  /\ files = { "search-results.txt", "search-results.png" }
  /\ "pageText" \in DOMAIN ret.val

\* C19: in the text rendering, an aggregate whose organicResults is present but empty gets
\* the header line "=== ORGANIC SEARCH RESULTS (0) ===" and no result block; the section
\* is left out only when the category is absent.
C19_EmptyOrganicHeader ==
  (rendered.format = "text" /\ rendered.kind = "ok") =>
    /\ ("organicResults" \in DOMAIN results /\ results.organicResults = << >>) =>
         /\ Contains(rendered.out, << "=== ", "ORGANIC SEARCH RESULTS", " (", "0", ") ===", "\n" >>)
         /\ ~Contains(rendered.out, << "Result #" >>)
    /\ ("organicResults" \notin DOMAIN results) =>
         ~Contains(rendered.out, << "=== ", "ORGANIC SEARCH RESULTS" >>)

Entity(g) ==
  CASE g = "&" -> << "&", "a", "m", "p", ";" >>
    [] g = "<" -> << "&", "l", "t", ";" >>
    [] g = ">" -> << "&", "g", "t", ";" >>
    [] g = Quote -> << "&", "q", "u", "o", "t", ";" >>
    [] g = "'" -> << "&", "#", "0", "3", "9", ";" >>
    [] OTHER -> << g >>
Escaped(s) == Flatten([ i \in 1..Len(s) |-> Entity(s[i]) ])

\* the entry fields of an HTML rendering, each inside its element, escaped exactly once
C21_FieldsEscaped ==
  /\ Contains(rendered.out,
       Lit("<h1>Search Results for ") \o << Quote >> \o Escaped(results.query) \o << Quote >> \o Lit("</h1>"))
  /\ Shown(results, "organicResults") =>
       \A i \in 1..Len(results.organicResults) :
         /\ Contains(rendered.out, Lit("<div class=title>")
              \o Escaped(OrNA(results.organicResults[i].title)) \o Lit("</div>"))
         /\ Contains(rendered.out, Lit("<div class=snippet>")
              \o Escaped(OrNA(results.organicResults[i].snippet)) \o Lit("</div>"))
  /\ Shown(results, "featuredSnippets") =>
       \A i \in 1..Len(results.featuredSnippets) :
         Contains(rendered.out, Lit("<div>") \o Escaped(OrNA(results.featuredSnippets[i].content)) \o Lit("</div>"))
  /\ Shown(results, "videos") =>
       \A i \in 1..Len(results.videos) :
         Contains(rendered.out, Lit("<div class=title>") \o Escaped(OrNA(results.videos[i].title)) \o Lit("</div>"))

\* C21: in an HTML rendering the query, in the title element and in the heading, and every
\* entry field appear with each of & < > " ' replaced by its entity exactly once
C21_HtmlEscapesUserText ==
  (rendered.format = "html" /\ rendered.kind = "ok") =>
    /\ Contains(rendered.out,
         Lit("<title>Search Results for ") \o << Quote >> \o Escaped(results.query) \o << Quote >> \o Lit("</title>"))
    /\ C21_FieldsEscaped

\* the number of section headings of an HTML rendering
RECURSIVE Count(_, _)
Count(s, g) == IF s = << >> THEN 0 ELSE (IF Head(s) = g THEN 1 ELSE 0) + Count(Tail(s), g)

\* C22: an HTML rendering holds one section for each of the six categories that has entries,
\* images included
C22_HtmlHasEverySection ==
  (rendered.format = "html" /\ rendered.kind = "ok") =>
    /\ Count(rendered.out, "<h2>") = Cardinality({ c \in CategorySet : Shown(results, c) })
    /\ Shown(results, "organicResults") => Contains(rendered.out, << "<h2>", "Organic Search Results" >>)
    /\ Shown(results, "featuredSnippets") => Contains(rendered.out, << "<h2>", "Featured Snippets" >>)
    /\ Shown(results, "peopleAlsoAsk") => Contains(rendered.out, << "<h2>", "People Also Ask" >>)
    /\ Shown(results, "relatedSearches") => Contains(rendered.out, << "<h2>", "Related Searches" >>)
    /\ Shown(results, "videos") => Contains(rendered.out, << "<h2>", "Video Results" >>)

\* ---- JSON.parse over the characters of a rendering: values as ordered trees
JStr(s) == [ t |-> "str", v |-> s ]
JNull == [ t |-> "null" ]
JBool(b) == [ t |-> "bool", v |-> b ]
JNum(n) == [ t |-> "num", v |-> n ]
JArr(items) == [ t |-> "arr", v |-> items ]
JObj(members) == [ t |-> "obj", v |-> members ]
JOpt(x) == IF x.t = "null" THEN JNull ELSE JStr(x.v)
Parsed(v, rest) == [ ok |-> TRUE, v |-> v, rest |-> rest ]
SyntaxError == [ ok |-> FALSE, v |-> JNull, rest |-> << >> ]

RECURSIVE ParseChars(_, _)
RECURSIVE ParseValue(_)
RECURSIVE ParseItems(_, _)
RECURSIVE ParseMembers(_, _)

\* the characters of a string literal after its opening quote, escapes decoded
ParseChars(s, acc) ==
  IF s = << >> THEN SyntaxError
  ELSE IF Head(s) = Quote THEN Parsed(JStr(acc), Tail(s))
  ELSE IF Head(s) = "\n" THEN SyntaxError
  ELSE IF Head(s) # "\\" THEN ParseChars(Tail(s), Append(acc, Head(s)))
  ELSE IF Len(s) < 2 THEN SyntaxError
  ELSE IF s[2] \in { Quote, "\\" } THEN ParseChars(Tail(Tail(s)), Append(acc, s[2]))
  ELSE IF s[2] = "n" THEN ParseChars(Tail(Tail(s)), Append(acc, "\n"))
  ELSE SyntaxError

ParseValue(s) ==
  IF s = << >> THEN SyntaxError
  ELSE CASE Head(s) = Quote -> ParseChars(Tail(s), << >>)
         [] Head(s) = "null" -> Parsed(JNull, Tail(s))
         [] Head(s) = "true" -> Parsed(JBool(TRUE), Tail(s))
         [] Head(s) = "false" -> Parsed(JBool(FALSE), Tail(s))
         [] Head(s) = "[" -> IF Len(s) > 1 /\ s[2] = "]" THEN Parsed(JArr(<< >>), Tail(Tail(s)))
                             ELSE ParseItems(Tail(s), << >>)
         [] Head(s) = "{" -> IF Len(s) > 1 /\ s[2] = "}" THEN Parsed(JObj(<< >>), Tail(Tail(s)))
                             ELSE ParseMembers(Tail(s), << >>)
         [] \E n \in 0..9 : Head(s) = ToString(n) ->
              Parsed(JNum(CHOOSE n \in 0..9 : Head(s) = ToString(n)), Tail(s))
         [] OTHER -> SyntaxError

\* value (, value)* ]
ParseItems(s, acc) ==
  LET p == ParseValue(s) IN
    IF ~p.ok \/ p.rest = << >> THEN SyntaxError
    ELSE IF Head(p.rest) = "," THEN ParseItems(Tail(p.rest), Append(acc, p.v))
    ELSE IF Head(p.rest) = "]" THEN Parsed(JArr(Append(acc, p.v)), Tail(p.rest))
    ELSE SyntaxError

\* "key" : value (, "key" : value)* }
ParseMembers(s, acc) ==
  IF s = << >> \/ Head(s) # Quote THEN SyntaxError
  ELSE LET k == ParseChars(Tail(s), << >>) IN
    IF ~k.ok \/ k.rest = << >> \/ Head(k.rest) # ":" THEN SyntaxError
    ELSE LET p == ParseValue(Tail(k.rest)) IN
      IF ~p.ok \/ p.rest = << >> THEN SyntaxError
      ELSE IF Head(p.rest) = "," THEN ParseMembers(Tail(p.rest), Append(acc, << k.v.v, p.v >>))
      ELSE IF Head(p.rest) = "}" THEN Parsed(JObj(Append(acc, << k.v.v, p.v >>)), Tail(p.rest))
      ELSE SyntaxError

JsonParse(s) ==
  LET p == ParseValue(s) IN IF p.ok /\ p.rest = << >> THEN p ELSE SyntaxError

\* equality of two trees, kind by kind, member order included
RECURSIVE SameTree(_, _)
SameTree(a, b) ==
  /\ a.t = b.t
  /\ CASE a.t = "null" -> TRUE
       [] a.t \in { "str", "bool", "num" } -> a.v = b.v
       [] a.t = "arr" -> /\ Len(a.v) = Len(b.v)
                         /\ \A i \in 1..Len(a.v) : SameTree(a.v[i], b.v[i])
       [] OTHER -> /\ Len(a.v) = Len(b.v)
                   /\ \A i \in 1..Len(a.v) : a.v[i][1] = b.v[i][1] /\ SameTree(a.v[i][2], b.v[i][2])

\* ---- the aggregate as the value held in memory, members in insertion order
TreeOfEntry(c, e) ==
  CASE c = "organicResults" ->
         JObj(<< << Lit("position"), JNum(e.position) >>, << Lit("title"), JOpt(e.title) >>,
                 << Lit("url"), JOpt(e.url) >>, << Lit("snippet"), JOpt(e.snippet) >> >>
              \o (IF e.deepLinks # << >>
                    THEN << << Lit("deepLinks"),
                               JArr([ j \in 1..Len(e.deepLinks) |->
                                      JObj(<< << Lit("text"), JOpt(e.deepLinks[j].text) >>,
                                              << Lit("url"), JOpt(e.deepLinks[j].url) >> >>) ]) >> >>
                    ELSE << >>)
              \o << << Lit("followUpSearched"), JBool(e.followUpSearched) >> >>
              \o (IF "followUpResults" \in DOMAIN e
                    THEN << << Lit("followUpResults"),
                               JObj(<< << Lit("title"), JStr(e.followUpResults.title) >>,
                                       << Lit("content"), JOpt(e.followUpResults.content) >>,
                                       << Lit("url"), JStr(e.followUpResults.url) >> >>) >> >>
                    ELSE << >>))
    [] c = "featuredSnippets" ->
         JObj(<< << Lit("content"), JOpt(e.content) >>, << Lit("source"), JOpt(e.source) >>,
                 << Lit("url"), JOpt(e.url) >> >>)
    [] c = "videos" ->
         JObj(<< << Lit("title"), JOpt(e.title) >>, << Lit("source"), JOpt(e.source) >>,
                 << Lit("duration"), JOpt(e.duration) >>, << Lit("url"), JOpt(e.url) >> >>)
    [] c = "images" ->
         JObj(<< << Lit("src"), JOpt(e.src) >>, << Lit("alt"), JOpt(e.alt) >>,
                 << Lit("title"), JOpt(e.title) >>, << Lit("url"), JOpt(e.url) >>,
                 << Lit("dimensions"), JOpt(e.dimensions) >> >>)
    [] OTHER -> JStr(e)

TreeOf(r) ==
  JObj(<< << Lit("query"), JStr(r.query) >>, << Lit("timestamp"), JStr(r.timestamp) >> >>
       \o Flatten([ i \in 1..Len(Categories) |->
            IF Categories[i] \in DOMAIN r
              THEN << << Lit(Categories[i]),
                         JArr([ j \in 1..Len(r[Categories[i]]) |->
                                TreeOfEntry(Categories[i], r[Categories[i]][j]) ]) >> >>
              ELSE << >> ])
       \o (IF "pageText" \in DOMAIN r THEN << << Lit("pageText"), JStr(r.pageText) >> >> ELSE << >>))

\* C23: parsing the JSON rendering of an aggregate succeeds and gives back the aggregate,
\* every member in its place and order, null members and nested entries included
C23_JsonRoundTrip ==
  (rendered.format = "json" /\ rendered.kind = "ok") =>
    /\ JsonParse(rendered.out).ok
    /\ SameTree(JsonParse(rendered.out).v, TreeOf(results))

\* an aggregate whose organic entry holds a quote in its title and follow-up data with a
\* backslash and a line break was rendered and parsed back
C23_Witness ==
  /\ rendered.format = "json" /\ rendered.kind = "ok"
  /\ "organicResults" \in DOMAIN results /\ Len(results.organicResults) > 0
  /\ "followUpResults" \in DOMAIN results.organicResults[1]
  /\ "featuredSnippets" \in DOMAIN results /\ Len(results.featuredSnippets) > 0
  /\ results.featuredSnippets[1].content = Null
  /\ JsonParse(rendered.out).ok

\* C24: findSearchInput queries the patterns of SEARCH_INPUT_SELECTORS in list order, starting
\* with the first; the first lookup that yields a control ends the search with that control and
\* no later pattern is queried; a lookup that yields nothing or throws moves on to the next
\* pattern, and after the last pattern the search fails
C24_FirstMatchWins ==
  [][ /\ (pc # "findSearchInput" /\ pc' = "findSearchInput") => selIdx' = 1
      /\ (pc # "findSearchInput" /\ last'.op = "$") => last' = last
      /\ (op = "run" /\ pc = "findSearchInput") =>
           /\ last'.op = "$" /\ last'.arg = SEARCH_INPUT_SELECTORS[selIdx]
           /\ last'.out = "element" => pc' = "type" /\ selIdx' = selIdx
           /\ (last'.out \in { "null", "throws" } /\ selIdx < Len(SEARCH_INPUT_SELECTORS)) =>
                pc' = "findSearchInput" /\ selIdx' = selIdx + 1
           /\ (last'.out \in { "null", "throws" } /\ selIdx = Len(SEARCH_INPUT_SELECTORS)) =>
                pc' = "finally" /\ ret'.kind = "throw"
    ]_vars

\* the second pattern yielded the control, after the first yielded none, and the query is
\* about to be typed into it
C24_Witness ==
  /\ op = "run" /\ pc = "type" /\ selIdx = 2
  /\ last = Ev("$", SEARCH_INPUT_SELECTORS[2], "element")

\* the order the run must extract in, and the part of the aggregate from position j on
C25_Order ==
  << "organicResults", "featuredSnippets", "peopleAlsoAsk", "relatedSearches", "videos", "images", "pageText" >>
C25_From(j) == { C25_Order[i] : i \in j..Len(C25_Order) }
C25_Index(c) == CHOOSE j \in 1..Len(C25_Order) : C25_Order[j] = c

\* C25: within a run, extraction happens only in the extract stage, entered once the search
\* stage has finished; every region wait or evaluation works on a category no earlier than any
\* already delivered, and a category (or the page text) is delivered only while nothing from
\* its position on has been: one extractor after the other in the order organic, featured
\* snippets, people-also-ask, related searches, videos, images, page text
C25_ExtractorsInOrder ==
  /\ [][ op = "run" =>
           /\ \A c \in (DOMAIN results' \ DOMAIN results) \cap C25_From(1) :
                /\ pc \in { "wait", "evaluate", "pageText" }
                /\ C25_From(C25_Index(c)) \cap DOMAIN results = {}
           /\ (pc \in { "wait", "evaluate" } /\ last' # last) =>
                \E j \in 1..6 : /\ last'.arg = SELECTORS[C25_Order[j]]
                                /\ C25_From(j) \cap DOMAIN results = {}
           /\ (pc' = "category" /\ pc \notin { "category", "wait", "evaluate" }) =>
                pc = "waitResults" /\ stage' = "extract" /\ DOMAIN results' \cap C25_From(1) = {}
       ]_vars
  /\ []( (op = "run" /\ pc \in { "category", "wait", "evaluate", "pageText" }) =>
           stage = "extract" /\ "searchExecution" \in timingData )

\* a run with every category enabled has delivered all six categories and the page text
C25_Witness ==
  /\ op = "run" /\ stage = "save"
  /\ C25_From(1) \subseteq DOMAIN results
  /\ Len(results.organicResults) > 0

\* C26: in a crawlMultiple batch no two crawl() calls in flight work on the same page, and a
\* file saved for a url holds the document of that url
C26_UnitsOwnTheirPage ==
  /\ \A i, j \in 1..Len(crawl.units) :
       (i # j /\ crawl.units[i].pc \in { "goto", "content" } /\ crawl.units[j].pc \in { "goto", "content" })
         => crawl.units[i].pg # crawl.units[j].pg
  /\ \A f \in files : op = "crawlMultiple" => f.content = f.name

\* C29: the crawl() calls of a Crawler launch at most one browser, and every browser that is
\* open is the one the BrowserManager holds, which close() closes
C29_OneBrowserLaunched ==
  (crawl # NoCrawl) =>
    /\ Len(launcher) <= 1
    /\ openBrowsers \subseteq { browser }

\* the operations the run() of a class has performed so far
C27_Trace(v) == SubSeq(RunOps(v, variants.env), 1, variants.n[v])
C27_Done(v) == variants.n[v] = Len(RunOps(v, variants.env))

\* C27: on the same environment the instrumented and the plain SearchResultScraper perform
\* the same sequence of browser, extraction, file-write and screenshot operations
C27_SameOperations ==
  (C27_Done("instrumented") /\ C27_Done("plain")) => C27_Trace("instrumented") = C27_Trace("plain")

\* C28: whenever no run() or performFollowUpSearch() call is in progress, every browser those
\* calls launched has been closed
C28_NoBrowserLeak ==
  (op = "none" /\ pc = "idle") => openBrowsers = {}

\* ---- reading a CSV rendering: rows end at a line break outside quotes, fields at a comma
\* outside quotes
RECURSIVE SplitRows(_, _, _)
SplitRows(s, cur, inq) ==
  IF s = << >> THEN (IF cur = << >> THEN << >> ELSE << cur >>)
  ELSE IF Head(s) = "\n" /\ ~inq THEN << cur >> \o SplitRows(Tail(s), << >>, FALSE)
  ELSE SplitRows(Tail(s), Append(cur, Head(s)), IF Head(s) = Quote THEN ~inq ELSE inq)

RECURSIVE FieldCount(_, _)
FieldCount(row, inq) ==
  IF row = << >> THEN 1
  ELSE (IF Head(row) = "," /\ ~inq THEN 1 ELSE 0)
         + FieldCount(Tail(row), IF Head(row) = Quote THEN ~inq ELSE inq)

\* the header row a row stands under
HeaderOf(rows, i) ==
  rows[CHOOSE h \in 1..i : /\ rows[h] # << >> /\ rows[h][1] = "Type"
                           /\ \A k \in (h + 1)..i : rows[k] = << >> \/ rows[k][1] # "Type"]

\* a field value between quotes, its quotes doubled
Doubled(x) ==
  << Quote >> \o Flatten([ i \in 1..Len(OrBlank(x)) |->
                           IF OrBlank(x)[i] = Quote THEN << Quote, Quote >> ELSE << OrBlank(x)[i] >> ])
              \o << Quote >>

\* every row of the rendering has as many fields as the header above it
C30_RowsFitHeader ==
  LET rows == SplitRows(rendered.out, << >>, FALSE) IN
    \A i \in 1..Len(rows) :
      rows[i] # << >> => FieldCount(rows[i], FALSE) = FieldCount(HeaderOf(rows, i), FALSE)

\* the string fields of the entries stand between quotes with their quotes doubled
C30_FieldsQuoted ==
  /\ Shown(results, "organicResults") =>
       \A i \in 1..Len(results.organicResults) :
         Contains(rendered.out, Lit(",") \o Doubled(results.organicResults[i].title) \o Lit(",")
                                  \o Doubled(results.organicResults[i].url) \o Lit(",")
                                  \o Doubled(results.organicResults[i].snippet) \o NL)
  /\ Shown(results, "featuredSnippets") =>
       \A i \in 1..Len(results.featuredSnippets) :
         Contains(rendered.out, Lit(",") \o Doubled(results.featuredSnippets[i].content) \o Lit(","))
  /\ Shown(results, "videos") =>
       \A i \in 1..Len(results.videos) :
         Contains(rendered.out, Lit(",") \o Doubled(results.videos[i].title) \o Lit(","))

\* C30: in a CSV rendering every data row of the organic, featured and video blocks has as
\* many fields as the header row of its block has columns, and every string field of an entry
\* is wrapped in quotes with embedded quotes doubled
C30_CsvRowsMatchHeader ==
  (rendered.format = "csv" /\ rendered.kind = "ok") => C30_RowsFitHeader /\ C30_FieldsQuoted
====
